---------------------------- MODULE Spec2Model ----------------------------
(***************************************************************************)
(* paper-radar: the resilient multi-provider LLM client                    *)
(* (src/agents/base.py), the filter stage and its response parser          *)
(* (src/agents/filter_agent.py), the summary stage                         *)
(* (src/agents/summary_agent.py), the history of processed papers          *)
(* (src/paper_history.py), the resolution of the provider roles            *)
(* (src/config_loader.py) and the JSON report (src/reporter.py).           *)
(*                                                                         *)
(* Each component has its own specification over the shared variables:     *)
(*   SpecClient  ResilientLLMClient.chat / chat_with_pdf                   *)
(*   SpecParse   FilterAgent._parse_response as a function of the text     *)
(*   SpecFilter  FilterAgent.filter_paper / filter_papers                  *)
(*   SpecSummary SummaryAgent.generate_summary / generate_all_summaries    *)
(*   SpecHistory PaperHistory and its history file, over process restarts  *)
(*   SpecConfig  get_llm_config and the summary request built on it        *)
(*   SpecReport  Reporter.save_json and generate_markdown, with the        *)
(*               summary prompts of the same report                        *)
(*   SpecRuns    two PaperHistory instances on the same history file       *)
(***************************************************************************)
EXTENDS Integers, Sequences, FiniteSets, TLC

(***************************************************************************)
(* Bounds of the model.                                                    *)
(***************************************************************************)
MaxProviders == 2
MaxRetries == 3
MaxDelay == 2
MaxCalls == 2
MaxLen == 5
MaxPapers == 2
MaxRespLen == 2
MaxTopics == 2
MaxAnalyses == 3
MaxAuthors == 4
MaxDay == 2
MaxKeepDays == 2
DaysPerMonth == 2
MaxEntries == 2

VARIABLES
    \* ---- ResilientLLMClient (src/agents/base.py) ----
    clients,        \* self.clients: the providers, in configured order
    max_retries,    \* self.max_retries
    retry_delay,    \* self.retry_delay (in whole delay units)
    c_pc,           \* "idle" | "attempt" | "returned" | "raised"
    method_name,    \* "chat" | "chat_with_pdf" of the call in progress
    c_i,            \* position in self.clients of the provider being tried
    attempt,        \* the inner loop's attempt number
    last_error,     \* the local last_error of _call_with_fallback
    c_out,          \* what the call returned or raised
    calls,          \* number of calls started so far
    log,            \* attempts made by the current call, in order
    sleeps,         \* time.sleep arguments of the current call, in order
    thrown,         \* what the most recent attempt threw (NoneVal if none)
    prev,           \* how the call before the current one ended: what it
                    \* returned or raised and the provider position it reached
    \* ---- FilterAgent._parse_response (src/agents/filter_agent.py) ----
    response,       \* the argument: a text (token sequence) or None
    p_pc,           \* "call" | "done"
    p_out,          \* what _parse_response returned or raised
    \* ---- FilterAgent.filter_papers (src/agents/filter_agent.py) ----
    papers,         \* the argument: the papers, in input order
    f_pc,           \* "loop" | "called" | "done" | "aborted" (an exception escaped)
    f_idx,          \* position of the next paper of the for loop
    results,        \* the local list results
    classified,     \* the filter_paper calls made so far, in order: the paper,
                    \* whether the result matched, whether call or parse failed
    f_chat,         \* what self.llm.chat did in the latest filter_paper call
    f_fields,       \* the members of the object parsed in that call
    f_out,          \* what that filter_paper call returned or raised
    \* ---- SummaryAgent.generate_all_summaries (src/agents/summary_agent.py) ----
    s_keywords,     \* the keys of the argument analyses_by_keyword, in order
    s_pc,           \* "loop" | "chat" | "returned" | "done" | "aborted"
    s_idx,          \* position of the next keyword of the for loop
    analyses,       \* the analyses of the generate_summary call in progress
    llm_calls,      \* the self.llm.chat calls that generate_summary call made
    s_chat,         \* what self.llm.chat did in that call, if it was called
    s_out,          \* what that generate_summary call returned or raised
    summaries,      \* the local dict summaries
    \* ---- PaperHistory (src/paper_history.py) ----
    h_file,         \* what the file at self.history_file holds
    history,        \* self._history
    h_pc,           \* "none" (not constructed) | "ready" | "open" (in
                    \* _save_history, before open) | "dump" (file opened
                    \* for writing, json.dump under way) | "dead" (killed)
    h_op,           \* the latest operation and its arguments; saves counts
                    \* the times it opened the file for writing
    h_out,          \* what it returns or raises
    h_wrote,        \* "none" | "ok" | "failed": how the latest completed
                    \* write of the file by this PaperHistory ended
    today,          \* the day datetime.now() falls on
    added,          \* the ids this PaperHistory loaded or had added by an
                    \* add_paper call that returned, less the ids removed
    unsaved,        \* the ids added since the latest successful write
    \* ---- get_llm_config (src/config_loader.py) ----
    llm,            \* config["llm"]: the roles light, heavy and summary
    llm0,           \* config["llm"] as it was loaded
    g_op,           \* the latest operation and its argument
    g_out,          \* what get_llm_config returned or raised
    g_sent,         \* the parameters of the summary request sent, if any
    \* ---- Reporter.save_json (src/reporter.py) ----
    report,         \* report.analyses_by_keyword
    r_pc,           \* "ready" | "saved" | "raised"
    r_json,         \* the payload of the JSON file written, if any
    r_md,           \* the numbered papers of the Markdown report, if generated
    r_prompts,      \* the numbered blocks of the summary prompts, if built
    \* ---- two PaperHistory instances on one file (src/paper_history.py) ----
    u_file,         \* the history file both instances were given
    u_history,      \* self._history of each instance
    u_pc            \* of each instance: "none" | "ready" | "dump" | "done"
                    \* (add_paper returned, file written) | "failed"
                    \* (add_paper returned, write failed) | "raised"

clientVars == <<clients, max_retries, retry_delay, c_pc, method_name, c_i,
                attempt, last_error, c_out, calls, log, sleeps, thrown, prev>>

parseVars == <<response, p_pc, p_out>>

filterVars == <<papers, f_pc, f_idx, results, classified, f_chat, f_fields,
                f_out>>

summaryVars == <<s_keywords, s_pc, s_idx, analyses, llm_calls, s_chat, s_out,
                 summaries>>

historyVars == <<h_file, history, h_pc, h_op, h_out, h_wrote, today, added,
                 unsaved>>

configVars == <<llm, llm0, g_op, g_out, g_sent>>

reportVars == <<report, r_pc, r_json, r_md, r_prompts>>

runVars == <<u_file, u_history, u_pc>>

vars == <<clientVars, parseVars, filterVars, summaryVars, historyVars,
          configVars, reportVars, runVars>>

\* What an action of one component leaves alone: the other components.
notClient ==
    <<parseVars, filterVars, summaryVars, historyVars, configVars, reportVars,
      runVars>>
notParse ==
    <<clientVars, filterVars, summaryVars, historyVars, configVars, reportVars,
      runVars>>
notFilter ==
    <<clientVars, parseVars, summaryVars, historyVars, configVars, reportVars,
      runVars>>
notSummary ==
    <<clientVars, parseVars, filterVars, historyVars, configVars, reportVars,
      runVars>>
notHistory ==
    <<clientVars, parseVars, filterVars, summaryVars, configVars, reportVars,
      runVars>>
notConfig ==
    <<clientVars, parseVars, filterVars, summaryVars, historyVars, reportVars,
      runVars>>
notRuns ==
    <<clientVars, parseVars, filterVars, summaryVars, historyVars, configVars,
      reportVars>>
notReport ==
    <<clientVars, parseVars, filterVars, summaryVars, historyVars, configVars,
      runVars>>

(***************************************************************************)
(* Values.                                                                 *)
(***************************************************************************)
NoneVal == [kind |-> "None"]

\* The exception object thrown by one attempt: every attempt that fails
\* throws its own object.
Exc(call, provider, att) ==
    [kind |-> "Exception", call |-> call, provider |-> provider, attempt |-> att]

\* `raise None`: Python raises TypeError (exceptions must derive from
\* BaseException) in place of the operand.
RaiseOf(err) == IF err = NoneVal THEN [kind |-> "TypeError"] ELSE err

Text(t) == [kind |-> "text", text |-> t]

\* Before the first call there is no earlier call.
NoCall == [out |-> NoneVal, c_i |-> 0]

Texts == {"t1", "t2"}
Methods == {"chat", "chat_with_pdf"}

ProviderIds == 1..MaxProviders

\* The provider lists: sequences of distinct providers, the empty one included.
ProviderLists ==
    UNION {{s \in [1..k -> ProviderIds] : \A a, b \in 1..k : s[a] = s[b] => a = b}
           : k \in 0..MaxProviders}

(***************************************************************************)
(* ResilientLLMClient.__init__                                             *)
(***************************************************************************)
ClientInit ==
    /\ clients \in ProviderLists
    /\ max_retries \in 0..MaxRetries
    /\ retry_delay \in 1..MaxDelay
    /\ c_pc = "idle"
    /\ method_name = "chat"
    /\ c_i = 0
    /\ attempt = 0
    /\ last_error = NoneVal
    /\ c_out = NoneVal
    /\ calls = 0
    /\ log = <<>>
    /\ sleeps = <<>>
    /\ thrown = NoneVal
    /\ prev = NoCall

(***************************************************************************)
(* _call_with_fallback                                                     *)
(***************************************************************************)
\* for attempt in range(1, self.max_retries + 1): the loop has a body to run
HasAttempts == Len(clients) >= 1 /\ max_retries >= 1

\* last_error = e
LastErrorAfter_KeepFirst(old, e) == IF old = NoneVal THEN e ELSE old
LastErrorAfter(old, e) == e

\* if attempt < self.max_retries: (another attempt on this provider follows)
RetrySameProvider_OneMore(att) == att <= max_retries
RetrySameProvider_OneLess(att) == att < max_retries - 1
RetrySameProvider(att) == att < max_retries

\* time.sleep(self.retry_delay * attempt)
BackoffDelay_Constant(att) == retry_delay
BackoffDelay(att) == retry_delay * att

\* the outer loop moves to the next element of self.clients
NextProvider(i) == i + 1

\* for i, client in enumerate(self.clients): where a call starts, i being
\* the position the call before it ended at
StartProvider_Resume(i) == IF i >= 1 THEN i ELSE 1
StartProvider(i) == 1

\* chat(...) / chat_with_pdf(...): entry of _call_with_fallback
Call ==
    /\ c_pc \in {"idle", "returned", "raised"}
    /\ calls < MaxCalls
    /\ \E m \in Methods : method_name' = m
    /\ calls' = calls + 1
    /\ last_error' = NoneVal
    /\ thrown' = NoneVal
    /\ log' = <<>>
    /\ sleeps' = <<>>
    /\ prev' = [out |-> c_out, c_i |-> c_i]
    /\ IF HasAttempts
       THEN /\ c_pc' = "attempt"
            /\ c_i' = StartProvider(c_i)
            /\ attempt' = 1
            /\ c_out' = NoneVal
       ELSE \* no loop body runs: raise last_error with last_error = None
            /\ c_pc' = "raised"
            /\ c_i' = 0
            /\ attempt' = 0
            /\ c_out' = RaiseOf(NoneVal)
    /\ UNCHANGED <<clients, max_retries, retry_delay>>
    /\ UNCHANGED notClient

\* return getattr(client, method_name)(**kwargs)   -- the attempt succeeds
AttemptReturns ==
    /\ c_pc = "attempt"
    /\ \E t \in Texts : c_out' = Text(t)
    /\ log' = Append(log, [provider |-> clients[c_i], attempt |-> attempt,
                           method |-> method_name, ok |-> TRUE,
                           out |-> c_out'])
    /\ thrown' = NoneVal
    /\ c_pc' = "returned"
    /\ UNCHANGED <<clients, max_retries, retry_delay, method_name, c_i, attempt,
                   last_error, calls, sleeps, prev>>
    /\ UNCHANGED notClient

\* except Exception as e: ...                      -- the attempt fails
AttemptRaises ==
    /\ c_pc = "attempt"
    /\ LET e == Exc(calls, clients[c_i], attempt)
           le == LastErrorAfter(last_error, e)
       IN /\ thrown' = e
          /\ last_error' = le
          /\ log' = Append(log, [provider |-> clients[c_i], attempt |-> attempt,
                                 method |-> method_name, ok |-> FALSE,
                                 out |-> e])
          /\ IF RetrySameProvider(attempt)
             THEN /\ sleeps' = Append(sleeps, BackoffDelay(attempt))
                  /\ attempt' = attempt + 1
                  /\ UNCHANGED <<c_i, c_pc, c_out>>
             ELSE /\ UNCHANGED sleeps
                  /\ IF NextProvider(c_i) <= Len(clients)
                     THEN /\ c_i' = NextProvider(c_i)
                          /\ attempt' = 1
                          /\ UNCHANGED <<c_pc, c_out>>
                     ELSE \* raise last_error
                          /\ c_pc' = "raised"
                          /\ c_out' = RaiseOf(le)
                          /\ UNCHANGED <<c_i, attempt>>
    /\ UNCHANGED <<clients, max_retries, retry_delay, method_name, calls, prev>>
    /\ UNCHANGED notClient

ClientNext == Call \/ AttemptReturns \/ AttemptRaises

\* The client when another component is under study: constructed, never called.
ClientIdle ==
    /\ clients = <<1>>
    /\ max_retries = 1
    /\ retry_delay = 1
    /\ c_pc = "idle"
    /\ method_name = "chat"
    /\ c_i = 0
    /\ attempt = 0
    /\ last_error = NoneVal
    /\ c_out = NoneVal
    /\ calls = 0
    /\ log = <<>>
    /\ sleeps = <<>>
    /\ thrown = NoneVal
    /\ prev = NoCall


(***************************************************************************)
(* Response texts.  A text is a sequence of tokens; white space between    *)
(* tokens is not modelled (json.loads and the two regular expressions      *)
(* accept it at every token boundary that matters here).                   *)
(*   "{" "}"  the brace characters                                         *)
(*   "k"      a member key with its colon, awaiting the member's value     *)
(*   "a"      a JSON value that is neither an object nor null and holds no *)
(*            brace: an array, number, string, true or false               *)
(*   "n"      the JSON literal null                                        *)
(*   "f"      a fence of three backticks                                   *)
(*   "j"      the word json                                                *)
(*   "x"      prose: text without braces or backticks that is not JSON     *)
(***************************************************************************)
Tokens == {"{", "}", "k", "a", "n", "f", "j", "x"}

TextsUpTo(len) == UNION {[1..k -> Tokens] : k \in 0..len}

\* Python values produced by json.loads
Dict(src) == [kind |-> "dict", src |-> src]
NonDict == [kind |-> "nondict"]

JSONDecodeError == [kind |-> "JSONDecodeError"]
TypeError == [kind |-> "TypeError"]

Return(v) == [kind |-> "return", value |-> v]
Raise(e) == [kind |-> "raise", value |-> e]

\* The JSON grammar over tokens: value ::= "a" | "n" | object,
\* object ::= "{" "}" | "{" "k" value "}".
RECURSIVE IsJsonValue(_)
IsJsonValue(s) ==
    \/ s = <<"a">>
    \/ s = <<"n">>
    \/ /\ Len(s) >= 2
       /\ s[1] = "{"
       /\ s[Len(s)] = "}"
       /\ \/ Len(s) = 2
          \/ /\ Len(s) >= 4
             /\ s[2] = "k"
             /\ IsJsonValue(SubSeq(s, 3, Len(s) - 1))

\* json.loads(text) for a str argument
JsonLoads(s) ==
    IF ~IsJsonValue(s) THEN Raise(JSONDecodeError)
    ELSE IF s = <<"a">> THEN Return(NonDict)
    ELSE IF s = <<"n">> THEN Return(NoneVal)
    ELSE Return(Dict(s))

NoMatch == <<"no match">>

\* re.search(r"```(?:json)?\s*(\{.*?\})\s*```", response, re.DOTALL).group(1):
\* the leftmost fence followed (after an optional json) by "{", and from it
\* the shortest stretch ending in a "}" that a fence follows.
FenceAt(s, p) ==
    /\ s[p] = "f"
    /\ LET b == IF p + 1 <= Len(s) /\ s[p + 1] = "j" THEN p + 2 ELSE p + 1
       IN /\ b <= Len(s)
          /\ s[b] = "{"
          /\ \E e \in (b + 1)..(Len(s) - 1) : s[e] = "}" /\ s[e + 1] = "f"

FencedBlock(s) ==
    LET starts == {p \in 1..Len(s) : FenceAt(s, p)}
    IN IF starts = {} THEN NoMatch
       ELSE LET p == CHOOSE q \in starts : \A q2 \in starts : q <= q2
                b == IF s[p + 1] = "j" THEN p + 2 ELSE p + 1
                ends == {e \in (b + 1)..(Len(s) - 1) : s[e] = "}" /\ s[e + 1] = "f"}
                e == CHOOSE e1 \in ends : \A e2 \in ends : e1 <= e2
            IN SubSeq(s, b, e)

\* re.search(r"\{[^{}]*\}", response, re.DOTALL).group(0): the leftmost "{"
\* whose next brace is a "}".
BraceAt(s, b) ==
    /\ s[b] = "{"
    /\ \E e \in (b + 1)..Len(s) :
          /\ s[e] = "}"
          /\ \A m \in (b + 1)..(e - 1) : s[m] \notin {"{", "}"}

BraceSpan(s) ==
    LET starts == {b \in 1..Len(s) : BraceAt(s, b)}
    IN IF starts = {} THEN NoMatch
       ELSE LET b == CHOOSE q \in starts : \A q2 \in starts : q <= q2
                e == CHOOSE e1 \in (b + 1)..Len(s) :
                        /\ s[e1] = "}"
                        /\ \A m \in (b + 1)..(e1 - 1) : s[m] \notin {"{", "}"}
            IN SubSeq(s, b, e)

\* The three strategies: what each hands to json.loads, and what comes back.
Strategy1(s) == JsonLoads(s)
Strategy2(s) ==
    IF FencedBlock(s) = NoMatch THEN Raise(JSONDecodeError)
    ELSE JsonLoads(FencedBlock(s))
Strategy3(s) ==
    IF BraceSpan(s) = NoMatch THEN Raise(JSONDecodeError)
    ELSE JsonLoads(BraceSpan(s))

Parsed(r) == r.kind = "return"

(***************************************************************************)
(* FilterAgent._parse_response                                             *)
(***************************************************************************)
ParseResponse_NoFallThrough(resp) ==
    IF resp = NoneVal THEN Raise(TypeError)
    ELSE LET s == resp.text
         IN IF Parsed(Strategy1(s)) THEN Strategy1(s)
            ELSE IF FencedBlock(s) # NoMatch
                 THEN (IF Parsed(Strategy2(s)) THEN Strategy2(s) ELSE Return(NoneVal))
            ELSE IF Parsed(Strategy3(s)) THEN Strategy3(s)
            ELSE Return(NoneVal)

ParseResponse(resp) ==
    \* json.loads(None) raises TypeError, which `except json.JSONDecodeError`
    \* does not catch
    IF resp = NoneVal THEN Raise(TypeError)
    ELSE LET s == resp.text
         IN IF Parsed(Strategy1(s)) THEN Strategy1(s)
            ELSE IF Parsed(Strategy2(s)) THEN Strategy2(s)
            ELSE IF Parsed(Strategy3(s)) THEN Strategy3(s)
            ELSE Return(NoneVal)

ParseInit ==
    /\ response \in {Text(t) : t \in TextsUpTo(MaxLen)} \cup {NoneVal}
    /\ p_pc = "call"
    /\ p_out = NoneVal

\* one call of self._parse_response(response)
ParseCall ==
    /\ p_pc = "call"
    /\ p_out' = ParseResponse(response)
    /\ p_pc' = "done"
    /\ UNCHANGED response
    /\ UNCHANGED notParse

ParseIdle ==
    /\ response = NoneVal
    /\ p_pc = "done"
    /\ p_out = NoneVal


(***************************************************************************)
(* The parsed object's members.  Each member is absent (<<>>) or present   *)
(* with one value (<<v>>); "critical" stands for any relevance string      *)
(* other than high, medium and low.                                        *)
(***************************************************************************)
Dicts ==
    [matched : {<<>>, <<TRUE>>, <<FALSE>>},
     relevance : {<<>>, <<"high">>, <<"medium">>, <<"low">>, <<"critical">>},
     matched_keywords : {<<>>, << <<"kw">> >>},
     reason : {<<>>, <<"because">>}]

NoFields == [matched |-> <<>>, relevance |-> <<>>, matched_keywords |-> <<>>,
             reason |-> <<>>]

\* dict.get(key, default)
Get(member, default) == IF member = <<>> THEN default ELSE member[1]

\* The reason strings: a fixed text, followed by str(e) where one is embedded.
Reason(text, err) == [text |-> text, error |-> err]

\* FilterResult(paper=, matched=, matched_keywords=, relevance=, reason=)
FilterResult(paper, matched, matched_keywords, relevance, reason) ==
    [paper |-> paper, matched |-> matched, matched_keywords |-> matched_keywords,
     relevance |-> relevance, reason |-> reason]

\* FilterResult(paper=, matched=, reason=): the other fields keep the
\* defaults of the class
FilterResultDefaults(paper, matched, reason) ==
    FilterResult(paper, matched, <<>>, "(default)", reason)

\* What self.llm.chat can do in the k-th call: return a text, return None
\* (a completion without content), or raise what _call_with_fallback raises.
ChatErrors(k) ==
    {Exc(k, p, a) : p \in ProviderIds, a \in 1..MaxRetries} \cup {RaiseOf(NoneVal)}

ChatOutcomes(k) ==
    {Return(Text(t)) : t \in TextsUpTo(MaxRespLen)}
        \cup {Return(NoneVal)}
        \cup {Raise(e) : e \in ChatErrors(k)}

AttributeError == [kind |-> "AttributeError"]

(***************************************************************************)
(* FilterAgent.filter_paper                                                *)
(***************************************************************************)
\* if matched and relevance == "low": matched = False
NormalizeMatched_Raw(matched, relevance) == matched
NormalizeMatched(matched, relevance) ==
    IF matched /\ relevance = "low" THEN FALSE ELSE matched

\* relevance = result.get("relevance", "low")
RelevanceOf(fields) == Get(fields.relevance, "low")

\* except Exception as e: which exceptions the handler takes
Caught_DecodeOnly(e) == e.kind = "JSONDecodeError"
Caught(e) == TRUE

\* the body of the try statement
FilterBody(paper, chat, fields) ==
    IF chat.kind = "raise" THEN chat
    ELSE LET result == ParseResponse(chat.value)
         IN IF result.kind = "raise" THEN result
            ELSE IF result.value = NoneVal
                 THEN Return(FilterResultDefaults(paper, FALSE,
                                 Reason("Failed to parse LLM response", NoneVal)))
            ELSE IF result.value.kind # "dict"
                 THEN \* result.get: no such attribute on a list, str, number
                      Raise(AttributeError)
            ELSE LET matched == Get(fields.matched, FALSE)
                     relevance == RelevanceOf(fields)
                 IN Return(FilterResult(paper,
                               NormalizeMatched(matched, relevance),
                               Get(fields.matched_keywords, <<>>),
                               relevance,
                               Reason(Get(fields.reason, ""), NoneVal)))

FilterPaper(paper, chat, fields) ==
    LET body == FilterBody(paper, chat, fields)
    IN IF body.kind = "raise" /\ Caught(body.value)
       THEN Return(FilterResultDefaults(paper, FALSE, Reason("Error: ", body.value)))
       ELSE body

\* Whether the call parses an object, whose members are then read.
ReadsFields(chat) ==
    /\ chat.kind = "return"
    /\ ParseResponse(chat.value).kind = "return"
    /\ ParseResponse(chat.value).value # NoneVal
    /\ ParseResponse(chat.value).value.kind = "dict"

(***************************************************************************)
(* FilterAgent.filter_papers                                               *)
(***************************************************************************)
PaperIds == 1..MaxPapers

\* The input lists: up to MaxPapers papers, each named by its number.
PaperLists == {[i \in 1..k |-> i] : k \in 0..MaxPapers}

FilterInit ==
    /\ papers \in PaperLists
    /\ f_pc = "loop"
    /\ f_idx = 1
    /\ results = <<>>
    /\ classified = <<>>
    /\ f_chat = Return(NoneVal)
    /\ f_fields = NoFields
    /\ f_out = Return(NoneVal)

\* if result.matched: results.append(result)
Keep_All(result) == TRUE
Keep(result) == result.matched

\* result = self.filter_paper(paper), for the next paper of the loop
FilterCall ==
    /\ f_pc = "loop"
    /\ f_idx <= Len(papers)
    /\ \E chat \in ChatOutcomes(f_idx) :
       \E fields \in (IF ReadsFields(chat) THEN Dicts ELSE {NoFields}) :
          /\ f_chat' = chat
          /\ f_fields' = fields
          /\ f_out' = FilterPaper(papers[f_idx], chat, fields)
    /\ classified' = Append(classified,
                           [paper |-> papers[f_idx],
                            matched |-> f_out'.kind = "return" /\ f_out'.value.matched,
                            failed |-> ~ReadsFields(f_chat')])
    /\ f_pc' = "called"
    /\ UNCHANGED <<papers, f_idx, results>>
    /\ UNCHANGED notFilter

\* if result.matched: results.append(result) -- and on to the next paper
FilterCollect ==
    /\ f_pc = "called"
    /\ IF f_out.kind = "raise"
       THEN \* the exception leaves filter_papers
            /\ f_pc' = "aborted"
            /\ UNCHANGED <<results, f_idx>>
       ELSE /\ results' = IF Keep(f_out.value)
                          THEN Append(results, f_out.value)
                          ELSE results
            /\ f_idx' = f_idx + 1
            /\ f_pc' = "loop"
    /\ f_chat' = Return(NoneVal)
    /\ f_fields' = NoFields
    /\ f_out' = Return(NoneVal)
    /\ UNCHANGED <<papers, classified>>
    /\ UNCHANGED notFilter

\* return results
FilterReturn ==
    /\ f_pc = "loop"
    /\ f_idx > Len(papers)
    /\ f_pc' = "done"
    /\ UNCHANGED <<papers, f_idx, results, classified, f_chat, f_fields, f_out>>
    /\ UNCHANGED notFilter

FilterNext == FilterCall \/ FilterCollect \/ FilterReturn

FilterIdle ==
    /\ papers = <<>>
    /\ f_pc = "done"
    /\ f_idx = 1
    /\ results = <<>>
    /\ classified = <<>>
    /\ f_chat = Return(NoneVal)
    /\ f_fields = NoFields
    /\ f_out = Return(NoneVal)

(***************************************************************************)
(* SummaryAgent (src/agents/summary_agent.py)                              *)
(***************************************************************************)
\* PaperAnalysis(paper=, success=, authors=): the fields the summary reads
PaperAnalysis(paper, success, authors) ==
    [paper |-> paper, success |-> success, authors |-> authors]

\* analysis.authors[:3]
AuthorsShown == 3

Min(a, b) == IF a < b THEN a ELSE b

\* ", ".join(analysis.authors[:3]), then " et al." if len(authors) > 3
AuthorsStr(authors) ==
    [names |-> SubSeq(authors, 1, Min(AuthorsShown, Len(authors))),
     et_al |-> Len(authors) > AuthorsShown]

\* _format_paper_analysis: the text of one paper, of which the model keeps
\* the paper it is about and the authors line
FormatPaperAnalysis(analysis) ==
    [paper |-> analysis.paper, authors_str |-> AuthorsStr(analysis.authors)]

\* _format_papers_analysis: for i, analysis in enumerate(analyses, 1):
\* if analysis.success: parts.append("## 论文 {i}\n" + ...)
FormatPapersAnalysis(list) ==
    LET positions == SelectSeq([i \in 1..Len(list) |-> i],
                               LAMBDA i : list[i].success)
    IN [k \in 1..Len(positions) |->
            [number |-> positions[k],
             text |-> FormatPaperAnalysis(list[positions[k]])]]

\* successful_analyses = [a for a in analyses if a.success]
SuccessfulAnalyses(list) == SelectSeq(list, LAMBDA a : a.success)

\* what generate_summary hands to _format_papers_analysis
FormatInput_Unfiltered(list) == list
FormatInput(list) == SuccessfulAnalyses(list)

\* if not successful_analyses: return the placeholder
NothingToSummarize_EmptyOnly(list) == list = <<>>
NothingToSummarize(list) == SuccessfulAnalyses(list) = <<>>

\* f"今日「{keyword}」领域暂无相关论文更新。"
NoUpdatesText(keyword) == [kind |-> "no_updates", keyword |-> keyword]

\* f"生成「{keyword}」领域总结时发生错误: {str(e)}"
SummaryErrorText(keyword, e) ==
    [kind |-> "summary_error", keyword |-> keyword, error |-> e]

\* SUMMARY_PROMPT.format(keyword=, papers_analysis=, language=)
SummaryPrompt(keyword, papers_analysis) ==
    [keyword |-> keyword, papers_analysis |-> papers_analysis]

\* self.llm.chat(messages=[...], temperature=0.5, max_tokens=2000)
SummaryTemperature == [num |-> 1, den |-> 2]
SummaryMaxTokens == 2000
ChatCall(prompt) ==
    [messages |-> prompt, temperature |-> SummaryTemperature,
     max_tokens |-> SummaryMaxTokens]

\* except Exception as e: which exceptions the handler takes
SummaryCaught_None(e) == FALSE
SummaryCaught(e) == TRUE

\* The analyses of one keyword: up to MaxAnalyses, each of the paper named
\* by its position, failed or successful with up to MaxAuthors authors.
AuthorLists == {[i \in 1..k |-> i] : k \in 0..MaxAuthors}
AnalysesLists ==
    UNION {{[i \in 1..k |->
                IF ok[i] THEN PaperAnalysis(i, TRUE, au[i])
                         ELSE PaperAnalysis(i, FALSE, <<>>)] :
              ok \in [1..k -> BOOLEAN], au \in [1..k -> AuthorLists]} :
           k \in 0..MaxAnalyses}

KeywordLists == {[i \in 1..k |-> i] : k \in 0..MaxTopics}

NotCalled == [kind |-> "not_called"]

\* What self.llm.chat raises when it is a ResilientLLMClient: the error of
\* the last attempt on the last provider, or the TypeError of `raise None`.
SummaryChatErrors(k) == {Exc(k, MaxProviders, MaxRetries), RaiseOf(NoneVal)}

SummaryInit ==
    /\ s_keywords \in KeywordLists
    /\ s_pc = "loop"
    /\ s_idx = 1
    /\ analyses = <<>>
    /\ llm_calls = <<>>
    /\ s_chat = NotCalled
    /\ s_out = Return(NoneVal)
    /\ summaries = <<>>

\* generate_summary up to its return of the placeholder or its call of
\* self.llm.chat, for the next keyword of the loop
SummaryCall ==
    /\ s_pc = "loop"
    /\ s_idx <= Len(s_keywords)
    /\ \E list \in AnalysesLists :
        /\ analyses' = list
        /\ IF NothingToSummarize(list)
           THEN /\ s_out' = Return(NoUpdatesText(s_keywords[s_idx]))
                /\ llm_calls' = <<>>
                /\ s_pc' = "returned"
           ELSE /\ s_out' = Return(NoneVal)
                /\ llm_calls' =
                     <<ChatCall(SummaryPrompt(s_keywords[s_idx],
                                    FormatPapersAnalysis(FormatInput(list))))>>
                /\ s_pc' = "chat"
    /\ UNCHANGED <<s_keywords, s_idx, s_chat, summaries>>
    /\ UNCHANGED notSummary

\* self.llm.chat returns: return summary
SummaryChatReturns ==
    /\ s_pc = "chat"
    /\ \E t \in {Text(x) : x \in Texts} \cup {NoneVal} :
        /\ s_chat' = Return(t)
        /\ s_out' = Return(t)
    /\ s_pc' = "returned"
    /\ UNCHANGED <<s_keywords, s_idx, analyses, llm_calls, summaries>>
    /\ UNCHANGED notSummary

\* self.llm.chat raises: the except clause returns the error text
SummaryChatRaises ==
    /\ s_pc = "chat"
    /\ \E e \in SummaryChatErrors(s_idx) :
        /\ s_chat' = Raise(e)
        /\ IF SummaryCaught(e)
           THEN /\ s_out' = Return(SummaryErrorText(s_keywords[s_idx], e))
                /\ s_pc' = "returned"
           ELSE /\ s_out' = Raise(e)
                /\ s_pc' = "aborted"
    /\ UNCHANGED <<s_keywords, s_idx, analyses, llm_calls, summaries>>
    /\ UNCHANGED notSummary

\* summaries[keyword] = self.generate_summary(keyword, analyses)
SummaryCollect ==
    /\ s_pc = "returned"
    /\ summaries' = Append(summaries, [keyword |-> s_keywords[s_idx],
                                       summary |-> s_out.value])
    /\ s_idx' = s_idx + 1
    /\ s_pc' = "loop"
    /\ analyses' = <<>>
    /\ llm_calls' = <<>>
    /\ s_chat' = NotCalled
    /\ s_out' = Return(NoneVal)
    /\ UNCHANGED s_keywords
    /\ UNCHANGED notSummary

\* return summaries
SummaryReturn ==
    /\ s_pc = "loop"
    /\ s_idx > Len(s_keywords)
    /\ s_pc' = "done"
    /\ UNCHANGED <<s_keywords, s_idx, analyses, llm_calls, s_chat, s_out,
                   summaries>>
    /\ UNCHANGED notSummary

SummaryNext ==
    \/ SummaryCall
    \/ SummaryChatReturns
    \/ SummaryChatRaises
    \/ SummaryCollect
    \/ SummaryReturn

SummaryIdle ==
    /\ s_keywords = <<>>
    /\ s_pc = "done"
    /\ s_idx = 1
    /\ analyses = <<>>
    /\ llm_calls = <<>>
    /\ s_chat = NotCalled
    /\ s_out = Return(NoneVal)
    /\ summaries = <<>>

(***************************************************************************)
(* PaperHistory (src/paper_history.py)                                     *)
(***************************************************************************)
\* The ids papers are added under, and the other arguments of add_paper:
\* keywords and pdf_path are optional (<<>> stands for None).
PaperIdSet == {"a", "b"}
AddArgs ==
    {[title |-> "t1", source |-> "arxiv", keywords |-> <<>>,
      pdf_path |-> <<>>],
     [title |-> "t2", source |-> "journal", keywords |-> << <<"kw">> >>,
      pdf_path |-> <<"p">>]}

\* Days are counted from the first day of the model.
Days == 0..MaxDay

\* strftime("%Y-%m-%d"): fields of fixed width, the most significant first;
\* a zero-padded field is modelled by the number it shows.
Strftime(day) == <<day \div DaysPerMonth, day % DaysPerMonth>>

\* isoformat(): the timestamp, to the precision of the model's clock
IsoFormat(day) == [kind |-> "time", date |-> Strftime(day)]

\* a < b on str: the first differing position decides, a proper prefix is less
StrLess(a, b) ==
    \E k \in 1..Len(b) :
        /\ k <= Len(a) + 1
        /\ \A j \in 1..(k - 1) : a[j] = b[j]
        /\ (k > Len(a) \/ a[k] < b[k])

\* keywords or []
KeywordsOrEmpty(keywords) == IF keywords = <<>> THEN <<>> ELSE keywords[1]

\* the dict add_paper stores under paper_id
PaperRecord(args, day) ==
    [title |-> args.title,
     source |-> args.source,
     keywords |-> KeywordsOrEmpty(args.keywords),
     pdf_path |-> args.pdf_path,
     processed_date |-> Strftime(day),
     processed_time |-> IsoFormat(day)]

\* self._history as a Python value: the expected dict with a "papers" dict,
\* a dict without the key "papers", or a dict whose "papers" is a list.
NoPapers == [x \in {} |-> NoneVal]
Ledger(papers_, last_updated) ==
    [kind |-> "ledger", papers |-> papers_, last_updated |-> last_updated]
NoPapersKey == [kind |-> "no_papers_key"]
PapersList(items) == [kind |-> "papers_list", items |-> items]

\* {"papers": {}, "last_updated": None}
EmptyHistory == Ledger(NoPapers, NoneVal)

\* What the file can hold: nothing (no file), something that cannot be
\* opened, text that is not JSON (empty, truncated or otherwise invalid),
\* or a JSON document.  Documents that are no dict (list, number, string,
\* null) and dicts whose "papers" has no len() (null, number) stand for
\* themselves.
FileAbsent == [kind |-> "absent"]
Unreadable == [kind |-> "unreadable"]
NotJson == [kind |-> "not_json"]
Json(doc) == [kind |-> "json", doc |-> doc]
NotADict == [kind |-> "not_a_dict"]
PapersUnsized == [kind |-> "papers_unsized"]

OSError == [kind |-> "OSError"]
KeyError == [kind |-> "KeyError"]

IntVal(n) == [kind |-> "int", n |-> n]

\* the try body of _load_history: open, json.load, len(data.get('papers', {}))
LoadBody(file) ==
    IF file.kind = "unreadable" THEN Raise(OSError)
    ELSE IF file.kind = "not_json" THEN Raise(JSONDecodeError)
    ELSE IF file.doc.kind = "not_a_dict" THEN Raise(AttributeError)
    ELSE IF file.doc.kind = "papers_unsized" THEN Raise(TypeError)
    ELSE Return(file.doc)

\* except Exception as e: which exceptions the handler takes
LoadCaught(e) == TRUE

\* _load_history
LoadHistory(file) ==
    IF file.kind = "absent" THEN Return(EmptyHistory)
    ELSE LET data == LoadBody(file)
         IN IF data.kind = "raise" /\ LoadCaught(data.value)
            THEN Return(EmptyHistory)
            ELSE data

\* is_new_paper: paper_id not in self._history.get("papers", {})
IsNewPaper(h, paper_id) ==
    IF h.kind = "ledger" THEN paper_id \notin DOMAIN h.papers
    ELSE IF h.kind = "papers_list" THEN paper_id \notin h.items
    ELSE TRUE

\* get_paper: self._history.get("papers", {}).get(paper_id)
GetPaper(h, paper_id) ==
    IF h.kind = "ledger"
    THEN Return(IF paper_id \in DOMAIN h.papers THEN h.papers[paper_id]
                ELSE NoneVal)
    ELSE IF h.kind = "papers_list" THEN Raise(AttributeError)
    ELSE Return(NoneVal)

\* the counting loops of get_stats
CountBy_Presence(papers_, field) ==
    [v \in {papers_[x][field] : x \in DOMAIN papers_} |-> 1]
CountBy(papers_, field) ==
    [v \in {papers_[x][field] : x \in DOMAIN papers_} |->
        Cardinality({x \in DOMAIN papers_ : papers_[x][field] = v})]

\* get_stats
GetStats(h) ==
    IF h.kind = "papers_list" THEN Raise(AttributeError)
    ELSE LET papers_ == IF h.kind = "ledger" THEN h.papers ELSE NoPapers
         IN Return([total_papers |-> Cardinality(DOMAIN papers_),
                    by_source |-> CountBy(papers_, "source"),
                    by_date |-> CountBy(papers_, "processed_date"),
                    last_updated |-> IF h.kind = "ledger" THEN h.last_updated
                                     ELSE NoneVal])

\* get_papers_by_date / get_papers_by_source: the dicts
\* {"paper_id": paper_id, **info} of the records whose field has the value
\* (the order of the returned list is not modelled)
GetPapersBy(h, field, value) ==
    IF h.kind = "papers_list" THEN Raise(AttributeError)
    ELSE LET papers_ == IF h.kind = "ledger" THEN h.papers ELSE NoPapers
         IN Return([kind |-> "list",
                    items |-> {[paper_id |-> x, info |-> papers_[x]] :
                                 x \in {y \in DOMAIN papers_ :
                                           papers_[y][field] = value}}])

BoolVal(b) == [kind |-> "bool", b |-> b]

\* self._history["papers"][paper_id] = {...}
StorePaper_Only(papers_, paper_id, rec) == [x \in {paper_id} |-> rec]
StorePaper_KeepExisting(papers_, paper_id, rec) ==
    [x \in DOMAIN papers_ \cup {paper_id} |->
        IF x \in DOMAIN papers_ THEN papers_[x] ELSE rec]
StorePaper(papers_, paper_id, rec) ==
    [x \in DOMAIN papers_ \cup {paper_id} |->
        IF x = paper_id THEN rec ELSE papers_[x]]

\* cutoff_date = (datetime.now() - timedelta(days=days)).strftime("%Y-%m-%d")
CutoffDate(now, days) == Strftime(now - days)

\* to_remove: if info.get("processed_date", "") < cutoff_date
ToRemove_Inclusive(papers_, cutoff_date) ==
    {x \in DOMAIN papers_ : ~StrLess(cutoff_date, papers_[x].processed_date)}
ToRemove(papers_, cutoff_date) ==
    {x \in DOMAIN papers_ : StrLess(papers_[x].processed_date, cutoff_date)}

\* for paper_id in to_remove: del papers[paper_id]
DelPapers(papers_, to_remove) ==
    [x \in DOMAIN papers_ \ to_remove |-> papers_[x]]

\* if removed > 0: self._save_history()
SavesAfterCleanup_Always(removed) == TRUE
SavesAfterCleanup_Never(removed) == FALSE
SavesAfterCleanup(removed) == removed > 0

\* _save_history: except Exception as e: which exceptions the handler takes
SaveCaught_None(e) == FALSE
SaveCaught(e) == TRUE

\* json.dump(self._history, f, ...): the document written
JsonDump_NoPapers(h) == Json(EmptyHistory)
JsonDump(h) == Json(h)

\* self._history of a process that is gone or not yet there
Gone == [kind |-> "gone"]
NoOp == [name |-> "none"]

\* The files a first PaperHistory can find: none, or one that is not the
\* history this program writes.
InitialFiles ==
    {FileAbsent, Unreadable, NotJson, Json(NotADict), Json(PapersUnsized),
     Json(NoPapersKey)}
        \cup {Json(PapersList(items)) : items \in SUBSET PaperIdSet}

HistoryInit ==
    /\ h_file \in InitialFiles
    /\ history = Gone
    /\ h_pc = "none"
    /\ h_op = NoOp
    /\ h_out = Return(NoneVal)
    /\ h_wrote = "none"
    /\ today = 0
    /\ added = {}
    /\ unsaved = {}

\* PaperHistory(history_file), in a new process or after a kill
Construct ==
    /\ h_pc \in {"none", "dead"}
    /\ LET loaded == LoadHistory(h_file)
       IN /\ h_op' = [name |-> "init", loaded |-> h_file,
                      restart |-> (h_pc = "dead"), expected |-> added,
                      wrote |-> h_wrote]
          /\ IF loaded.kind = "return"
             THEN /\ history' = loaded.value
                  /\ h_pc' = "ready"
                  /\ h_out' = Return(NoneVal)
                  /\ added' = {x \in PaperIdSet : ~IsNewPaper(loaded.value, x)}
             ELSE /\ history' = Gone
                  /\ h_pc' = "none"
                  /\ h_out' = loaded
                  /\ added' = {}
    /\ unsaved' = {}
    /\ h_wrote' = "none"
    /\ UNCHANGED <<h_file, today>>
    /\ UNCHANGED notHistory

\* add_paper up to its call of _save_history, and _save_history up to its
\* try statement
AddPaper ==
    /\ h_pc = "ready"
    /\ \E paper_id \in PaperIdSet, args \in AddArgs :
        /\ h_op' = [name |-> "add", paper_id |-> paper_id, args |-> args,
                    day |-> today, flushed |-> {}, saves |-> 0]
        /\ IF history.kind = "ledger"
           THEN /\ history' = Ledger(StorePaper(history.papers, paper_id,
                                                PaperRecord(args, today)),
                                     IsoFormat(today))
                /\ h_pc' = "open"
                /\ h_out' = Return(NoneVal)
           ELSE \* no key "papers", or a list that takes no str index
                /\ history' = history
                /\ h_pc' = "ready"
                /\ h_out' = Raise(IF history.kind = "no_papers_key"
                                  THEN KeyError ELSE TypeError)
    /\ UNCHANGED <<h_file, h_wrote, today, added, unsaved>>
    /\ UNCHANGED notHistory

\* cleanup_old_papers(days) up to its call of _save_history or its return
CleanupOldPapers ==
    /\ h_pc = "ready"
    /\ \E days \in 0..MaxKeepDays :
        /\ h_op' = [name |-> "cleanup", days |-> days, day |-> today,
                    flushed |-> {}, saves |-> 0]
        /\ IF history.kind = "papers_list"
           THEN \* papers.items(): no such attribute on a list
                /\ h_out' = Raise(AttributeError)
                /\ UNCHANGED <<history, h_pc, added, unsaved>>
           ELSE IF history.kind = "no_papers_key"
           THEN /\ h_out' = Return(IntVal(0))
                /\ UNCHANGED <<history, h_pc, added, unsaved>>
           ELSE LET to_remove == ToRemove(history.papers,
                                          CutoffDate(today, days))
                    removed == Cardinality(to_remove)
                    left == DelPapers(history.papers, to_remove)
                IN /\ h_out' = Return(IntVal(removed))
                   /\ added' = added \ to_remove
                   /\ unsaved' = unsaved \ to_remove
                   /\ IF SavesAfterCleanup(removed)
                      THEN /\ history' = Ledger(left, IsoFormat(today))
                           /\ h_pc' = "open"
                      ELSE /\ history' = Ledger(left, history.last_updated)
                           /\ h_pc' = "ready"
    /\ UNCHANGED <<h_file, h_wrote, today>>
    /\ UNCHANGED notHistory

\* The calls that only read: each leaves everything but its result alone.
Sources == {args.source : args \in AddArgs}

ReadOnly(op, out) ==
    /\ h_op' = op
    /\ h_out' = out
    /\ UNCHANGED <<h_file, history, h_pc, h_wrote, today, added, unsaved>>
    /\ UNCHANGED notHistory

\* is_new_paper(paper_id)
CallIsNewPaper ==
    /\ h_pc = "ready"
    /\ \E paper_id \in PaperIdSet :
        ReadOnly([name |-> "is_new_paper", paper_id |-> paper_id],
                 Return(BoolVal(IsNewPaper(history, paper_id))))

\* get_paper(paper_id)
CallGetPaper ==
    /\ h_pc = "ready"
    /\ \E paper_id \in PaperIdSet :
        ReadOnly([name |-> "get_paper", paper_id |-> paper_id],
                 GetPaper(history, paper_id))

\* get_papers_by_date(date)
CallGetPapersByDate ==
    /\ h_pc = "ready"
    /\ \E d \in Days :
        ReadOnly([name |-> "get_papers_by_date", date |-> Strftime(d)],
                 GetPapersBy(history, "processed_date", Strftime(d)))

\* get_papers_by_source(source)
CallGetPapersBySource ==
    /\ h_pc = "ready"
    /\ \E source \in Sources :
        ReadOnly([name |-> "get_papers_by_source", source |-> source],
                 GetPapersBy(history, "source", source))

\* get_stats()
CallGetStats ==
    /\ h_pc = "ready"
    /\ ReadOnly([name |-> "get_stats"], GetStats(history))

\* the ids the operation in progress has added once it returns
AddedByOp == IF h_op.name = "add" THEN {h_op.paper_id} ELSE {}

\* _save_history fails with e: logged if the handler takes it, else raised
SaveFails(e) ==
    /\ h_wrote' = "failed"
    /\ h_pc' = "ready"
    /\ IF SaveCaught(e)
       THEN /\ h_out' = h_out
            /\ added' = added \cup AddedByOp
            /\ unsaved' = unsaved \cup AddedByOp
       ELSE /\ h_out' = Raise(e)
            /\ UNCHANGED <<added, unsaved>>
    /\ UNCHANGED <<history, today>>

\* open(self.history_file, "w") raises: the file stays as it was
SaveOpenFails ==
    /\ h_pc = "open"
    /\ SaveFails(OSError)
    /\ h_op' = [h_op EXCEPT !.saves = @ + 1]
    /\ UNCHANGED h_file
    /\ UNCHANGED notHistory

\* open(self.history_file, "w") succeeds: the file is truncated
SaveOpen ==
    /\ h_pc = "open"
    /\ h_file' = NotJson
    /\ h_pc' = "dump"
    /\ h_op' = [h_op EXCEPT !.saves = @ + 1]
    /\ UNCHANGED <<history, h_out, h_wrote, today, added, unsaved>>
    /\ UNCHANGED notHistory

\* json.dump raises part way: the file holds part of the document
SaveDumpFails ==
    /\ h_pc = "dump"
    /\ SaveFails(OSError)
    /\ h_file' = NotJson
    /\ UNCHANGED h_op
    /\ UNCHANGED notHistory

\* json.dump and the close of the file succeed; the operation returns
SaveDump ==
    /\ h_pc = "dump"
    /\ h_file' = JsonDump(history)
    /\ h_wrote' = "ok"
    /\ h_pc' = "ready"
    /\ added' = added \cup AddedByOp
    /\ h_op' = [h_op EXCEPT !.flushed = unsaved \cup AddedByOp]
    /\ unsaved' = {}
    /\ UNCHANGED <<history, h_out, today>>
    /\ UNCHANGED notHistory

\* The process is killed.  During json.dump the file is left with whatever
\* had reached it: part of the document, or all of it.
Kill ==
    /\ h_pc \in {"ready", "open", "dump"}
    /\ h_file' \in (IF h_pc = "dump" THEN {NotJson, JsonDump(history)}
                    ELSE {h_file})
    /\ history' = Gone
    /\ h_pc' = "dead"
    /\ h_op' = [name |-> "kill", at |-> h_pc]
    /\ h_out' = Return(NoneVal)
    /\ UNCHANGED <<h_wrote, today, added, unsaved>>
    /\ UNCHANGED notHistory

\* a day passes between two operations
Tick ==
    /\ h_pc = "ready"
    /\ today < MaxDay
    /\ today' = today + 1
    /\ UNCHANGED <<h_file, history, h_pc, h_op, h_out, h_wrote, added, unsaved>>
    /\ UNCHANGED notHistory

HistoryNext ==
    \/ Construct
    \/ AddPaper
    \/ CleanupOldPapers
    \/ SaveOpenFails
    \/ SaveOpen
    \/ SaveDumpFails
    \/ SaveDump
    \/ Kill
    \/ Tick
    \/ CallIsNewPaper
    \/ CallGetPaper
    \/ CallGetPapersByDate
    \/ CallGetPapersBySource
    \/ CallGetStats

HistoryIdle ==
    /\ h_file = FileAbsent
    /\ history = Gone
    /\ h_pc = "none"
    /\ h_op = NoOp
    /\ h_out = Return(NoneVal)
    /\ h_wrote = "none"
    /\ today = 0
    /\ added = {}
    /\ unsaved = {}

(***************************************************************************)
(* get_llm_config (src/config_loader.py) and the summary request.          *)
(* A dict is a record of optional fields: <<>> for a key the dict does not *)
(* hold, <<v>> for a key holding v.  Numbers with a fraction are records   *)
(* [num, den].  A list that get_llm_config returns is a sequence of items  *)
(* [ref, val]: val is the dict, ref the place of that same object in the   *)
(* configuration, or NoRef for an object the configuration does not hold   *)
(* (a copy, a fresh {}).                                                   *)
(***************************************************************************)
LlmTypes == {"light", "heavy", "summary"}
BaseRoles == {"light", "heavy"}

ConfigTemperature == [num |-> 3, den |-> 10]
ConfigMaxTokens == 1000
OverrideTemperature == [num |-> 7, den |-> 10]
OverrideMaxTokens == 4000

Entry(model, temperature, max_tokens) ==
    [model |-> model, temperature |-> temperature, max_tokens |-> max_tokens]

\* {}
EmptyEntry == Entry(<<>>, <<>>, <<>>)

\* The provider entries of the configurations: naming both numeric
\* fields, one of them, or none.
ProviderEntries ==
    {Entry(<<"m1">>, <<ConfigTemperature>>, <<ConfigMaxTokens>>),
     Entry(<<"m2">>, <<>>, <<>>),
     Entry(<<"m3">>, <<ConfigTemperature>>, <<>>)}

\* A role of config["llm"]: one object, a list of objects, or no such key.
RoleDict(e) == [kind |-> "dict", items |-> <<e>>]
RoleList(es) == [kind |-> "list", items |-> es]
RoleAbsent == [kind |-> "absent", items |-> <<>>]

RoleConfigs ==
    {RoleAbsent}
    \cup {RoleDict(e) : e \in ProviderEntries}
    \cup UNION {{RoleList(es) : es \in [1..k -> ProviderEntries]}
                : k \in 0..MaxEntries}

\* config["llm"]["summary"]: an object, something that is no object (a
\* provider list of its own), or no such key.
SummaryDict(use, temperature, max_tokens) ==
    [kind |-> "dict", use |-> use, temperature |-> temperature,
     max_tokens |-> max_tokens]
SummaryNoDict == [kind |-> "list"]
SummaryAbsent == [kind |-> "absent"]

SummaryConfigs ==
    {SummaryNoDict, SummaryAbsent}
    \cup {SummaryDict(u, t, k) :
            u \in {<<>>} \cup {<<x>> : x \in LlmTypes},
            t \in {<<>>, <<OverrideTemperature>>},
            k \in {<<>>, <<OverrideMaxTokens>>}}

LlmConfigs == [light : RoleConfigs, heavy : RoleConfigs, summary : SummaryConfigs]

Ref(role, idx) == [role |-> role, idx |-> idx]
NoRef == [role |-> "none", idx |-> 0]
Item(ref, val) == [ref |-> ref, val |-> val]
ListOf(items) == [kind |-> "list", items |-> items]

RecursionError == [kind |-> "RecursionError"]

\* d.get(key, default) of an optional field
DictGet(field, default) == IF field = <<>> THEN default ELSE field[1]

\* llm_config = config.get("llm", {}).get(llm_type, {}) for the summary role
SummaryLlmConfig(cfg) ==
    IF cfg.summary.kind = "absent" THEN SummaryDict(<<>>, <<>>, <<>>)
                                   ELSE cfg.summary

\* isinstance(llm_config, dict)
IsDict(llm_config) == llm_config.kind = "dict"

\* if isinstance(llm_config, dict): return [llm_config]
\* if isinstance(llm_config, list): return llm_config
\* (for a missing key llm_config is the default {}, a new object)
ResolveRole_Reversed(cfg, llm_type) ==
    LET role == cfg[llm_type]
        n == Len(role.items)
    IN IF role.kind = "absent"
       THEN <<Item(NoRef, EmptyEntry)>>
       ELSE [k \in 1..n |-> Item(Ref(llm_type, n + 1 - k), role.items[n + 1 - k])]
ResolveRole(cfg, llm_type) ==
    LET role == cfg[llm_type]
    IN IF role.kind = "absent"
       THEN <<Item(NoRef, EmptyEntry)>>
       ELSE [k \in 1..Len(role.items) |->
                Item(Ref(llm_type, k), role.items[k])]

\* c.copy()
Copied_Same(item) == item
Copied(item) == Item(NoRef, item.val)

\* the defaults of the two cfg.get calls of the summary branch
DefaultSummaryTemperature == [num |-> 1, den |-> 2]
DefaultSummaryMaxTokens == 2000

\* cfg["temperature"] = llm_config.get("temperature", cfg.get("temperature", 0.5))
\* cfg["max_tokens"] = llm_config.get("max_tokens", cfg.get("max_tokens", 2000))
Overridden(cfg, llm_config) ==
    [cfg EXCEPT
        !.temperature =
            <<DictGet(llm_config.temperature,
                      DictGet(cfg.temperature, DefaultSummaryTemperature))>>,
        !.max_tokens =
            <<DictGet(llm_config.max_tokens,
                      DictGet(cfg.max_tokens, DefaultSummaryMaxTokens))>>]

\* use = llm_config.get("use", "light") if isinstance(llm_config, dict) else "light"
UseOf(llm_config) ==
    IF IsDict(llm_config) THEN DictGet(llm_config.use, "light") ELSE "light"

\* the summary branch of get_llm_config; use = "summary" recurses without end
ResolveSummary(cfg) ==
    LET llm_config == SummaryLlmConfig(cfg)
        use == UseOf(llm_config)
    IN IF use = "summary"
       THEN Raise(RecursionError)
       ELSE LET from == ResolveRole(cfg, use)
                base_configs == [k \in 1..Len(from) |-> Copied(from[k])]
            IN Return(ListOf(
                   [k \in 1..Len(base_configs) |->
                       IF IsDict(llm_config)
                       THEN Item(base_configs[k].ref,
                                 Overridden(base_configs[k].val, llm_config))
                       ELSE base_configs[k]]))

\* get_llm_config(config, llm_type)
GetLlmConfigResult(cfg, llm_type) ==
    IF llm_type = "summary" THEN ResolveSummary(cfg)
                            ELSE Return(ListOf(ResolveRole(cfg, llm_type)))

\* The configuration after the assignments made to the dicts of a returned
\* list: an assignment to an object that the configuration holds shows there.
Assigned(cfg, out) ==
    IF out.kind # "return" THEN cfg
    ELSE LET items == out.value.items
             Written(role, k) == {j \in 1..Len(items) : items[j].ref = Ref(role, k)}
         IN [t \in DOMAIN cfg |->
               IF t \in BaseRoles
               THEN [cfg[t] EXCEPT !.items =
                       [k \in 1..Len(cfg[t].items) |->
                           IF Written(t, k) = {}
                           THEN cfg[t].items[k]
                           ELSE items[CHOOSE j \in Written(t, k) : TRUE].val]]
               ELSE cfg[t]]

NoConfigOp == [name |-> "none"]
NotSent == [kind |-> "not_sent"]

ConfigInit ==
    /\ llm \in LlmConfigs
    /\ llm0 = llm
    /\ g_op = NoConfigOp
    /\ g_out = Return(NoneVal)
    /\ g_sent = NotSent

\* get_llm_config(config, llm_type)
GetLlmConfig ==
    \E llm_type \in LlmTypes :
        LET out == GetLlmConfigResult(llm, llm_type)
        IN /\ g_op' = [name |-> "get_llm_config", llm_type |-> llm_type]
           /\ g_out' = out
           /\ llm' = IF llm_type = "summary" THEN Assigned(llm, out) ELSE llm
           /\ g_sent' = NotSent
           /\ UNCHANGED llm0
           /\ UNCHANGED notConfig

\* BaseLLMClient.__init__(api_base, api_key, model, temperature=0.3,
\* max_tokens=2000): the defaults of the two numeric parameters
ClientTemperature == [num |-> 3, den |-> 10]
ClientMaxTokens == 2000

\* BaseLLMClient(**clean)
BaseLLMClient(cfg) ==
    [model |-> cfg.model[1],
     temperature |-> DictGet(cfg.temperature, ClientTemperature),
     max_tokens |-> DictGet(cfg.max_tokens, ClientMaxTokens)]

\* BaseLLMClient.chat: params = {"model": self.model, "temperature":
\* temperature if temperature is not None else self.temperature, ...}
ChatParams(client, temperature, max_tokens) ==
    [model |-> client.model,
     temperature |-> DictGet(temperature, client.temperature),
     max_tokens |-> DictGet(max_tokens, client.max_tokens)]

\* the configs from which the summary agent's client is built
SummaryClientConfigs(cfg) == GetLlmConfigResult(cfg, "summary")

\* The summary stage as the program wires it: the list resolved for the
\* summary role makes the client (one BaseLLMClient per entry), and
\* generate_summary sends its request through the client of one provider:
\* self.llm.chat(messages, temperature=0.5, max_tokens=2000)
SummaryRequest ==
    LET out == SummaryClientConfigs(llm)
    IN /\ out.kind = "return"
       /\ \E k \in 1..Len(out.value.items) :
           /\ out.value.items[k].val.model # <<>>
           /\ g_op' = [name |-> "generate_summary", provider |-> k]
           /\ g_sent' = ChatParams(BaseLLMClient(out.value.items[k].val),
                                   <<SummaryTemperature>>, <<SummaryMaxTokens>>)
       /\ g_out' = out
       /\ llm' = Assigned(llm, out)
       /\ UNCHANGED llm0
       /\ UNCHANGED notConfig

ConfigNext == GetLlmConfig \/ SummaryRequest

ConfigIdle ==
    /\ llm = [light |-> RoleAbsent, heavy |-> RoleAbsent, summary |-> SummaryAbsent]
    /\ llm0 = llm
    /\ g_op = NoConfigOp
    /\ g_out = Return(NoneVal)
    /\ g_sent = NotSent

(***************************************************************************)
(* Reporter.save_json (src/reporter.py)                                    *)
(***************************************************************************)
\* report.analyses_by_keyword: the analyses of each keyword, each of the
\* paper named by its position in the list, successful or failed
ReportAnalyses ==
    UNION {{[i \in 1..k |-> PaperAnalysis(i, ok[i], <<>>)] : ok \in [1..k -> BOOLEAN]}
           : k \in 0..MaxAnalyses}
Reports ==
    UNION {[kws -> ReportAnalyses] : kws \in SUBSET (1..MaxTopics)}

\* _analysis_to_dict(analysis): of its keys the model keeps "id"
AnalysisToDict(analysis) == [id |-> analysis.paper]

\* paper_dict["paper_number"] = paper_number
WithPaperNumber(paper_dict, paper_number) ==
    [id |-> paper_dict.id, paper_number |-> paper_number]

\* if not analysis.success: continue
Skipped_Never(analysis) == FALSE
Skipped(analysis) == ~analysis.success

\* the loop over the analyses of one keyword, from position i on
RECURSIVE NumberedPapers(_, _, _, _)
NumberedPapers(list, i, paper_number, numbered_papers) ==
    IF i > Len(list) THEN numbered_papers
    ELSE IF Skipped(list[i])
         THEN NumberedPapers(list, i + 1, paper_number, numbered_papers)
         ELSE NumberedPapers(list, i + 1, paper_number + 1,
                  Append(numbered_papers,
                         WithPaperNumber(AnalysisToDict(list[i]),
                                         paper_number + 1)))

\* papers_by_keyword of the payload
PapersByKeyword(rep) ==
    [keyword \in DOMAIN rep |-> NumberedPapers(rep[keyword], 1, 0, <<>>)]

NoFile == [kind |-> "no_file"]
Payload(rep) == [kind |-> "json", papers_by_keyword |-> PapersByKeyword(rep)]

\* generate_markdown: for keyword in report.keywords, with
\* analyses = report.analyses_by_keyword.get(keyword, []); the keywords of
\* a report are the configured topics
ReportKeywords == 1..MaxTopics
AnalysesOf(rep, keyword) ==
    IF keyword \in DOMAIN rep THEN rep[keyword] ELSE <<>>

\* for i, analysis in enumerate(successful_analyses, 1):
\*     lines.append(f"#### {i}. [{analysis.title}](...)")
MarkdownPapers(list) ==
    LET successful_analyses == SuccessfulAnalyses(list)
    IN [i \in 1..Len(successful_analyses) |->
            [index |-> i, id |-> successful_analyses[i].paper]]

Markdown(rep) ==
    [kind |-> "markdown",
     papers |-> [keyword \in ReportKeywords |->
                    MarkdownPapers(AnalysesOf(rep, keyword))]]

\* generate_summary: the numbered blocks of the prompt, none when the
\* placeholder is returned
PromptBlocks(list) ==
    IF NothingToSummarize(list) THEN <<>>
    ELSE FormatPapersAnalysis(FormatInput(list))

\* generate_all_summaries: for keyword, analyses in analyses_by_keyword.items()
Prompts(rep) ==
    [kind |-> "prompts",
     blocks |-> [keyword \in DOMAIN rep |-> PromptBlocks(rep[keyword])]]

ReportInit ==
    /\ report \in Reports
    /\ r_pc = "ready"
    /\ r_json = NoFile
    /\ r_md = NotCalled
    /\ r_prompts = NotCalled

\* generate_all_summaries(report.analyses_by_keyword): the prompts built
GenerateAllSummaries ==
    /\ r_prompts = NotCalled
    /\ r_md = NotCalled
    /\ r_pc = "ready"
    /\ r_prompts' = Prompts(report)
    /\ UNCHANGED <<report, r_pc, r_json, r_md>>
    /\ UNCHANGED notReport

\* generate_markdown(report)
GenerateMarkdown ==
    /\ r_md = NotCalled
    /\ r_pc = "ready"
    /\ r_md' = Markdown(report)
    /\ UNCHANGED <<report, r_pc, r_json, r_prompts>>
    /\ UNCHANGED notReport

\* save_json(report): the file is written
SaveJson ==
    /\ r_pc = "ready"
    /\ r_json' = Payload(report)
    /\ r_pc' = "saved"
    /\ UNCHANGED <<report, r_md, r_prompts>>
    /\ UNCHANGED notReport

\* save_json(report): mkdir or write_text raises, no file is written
SaveJsonFails ==
    /\ r_pc = "ready"
    /\ r_json' = NoFile
    /\ r_pc' = "raised"
    /\ UNCHANGED <<report, r_md, r_prompts>>
    /\ UNCHANGED notReport

ReportNext ==
    GenerateAllSummaries \/ GenerateMarkdown \/ SaveJson \/ SaveJsonFails

ReportIdle ==
    /\ report = <<>>
    /\ r_pc = "idle"
    /\ r_json = NoFile
    /\ r_md = NotCalled
    /\ r_prompts = NotCalled

(***************************************************************************)
(* Two PaperHistory instances (two runs of the program) constructed on the *)
(* same history file, each adding one paper.  The steps of the two         *)
(* processes interleave at the file operations: the read of __init__, the  *)
(* open(..., "w") and the json.dump of _save_history.                      *)
(***************************************************************************)
Instances == {1, 2}
Other(i) == 3 - i

\* the id each instance adds
RunPaperId(i) == IF i = 1 THEN "a" ELSE "b"

\* The files the two runs can find: none, one that is not a history, an
\* empty history, or the history an earlier run left.
RunFiles ==
    {FileAbsent, NotJson, Json(NoPapersKey), Json(EmptyHistory)}
        \cup {Json(Ledger(StorePaper(NoPapers, x, PaperRecord(args, 0)),
                          IsoFormat(0))) :
                x \in PaperIdSet, args \in AddArgs}

RunsInit ==
    /\ u_file \in RunFiles
    /\ u_history = [i \in Instances |-> Gone]
    /\ u_pc = [i \in Instances |-> "none"]

\* PaperHistory(history_file) in process i
RunConstruct ==
    \E i \in Instances :
        /\ u_pc[i] = "none"
        /\ LET loaded == LoadHistory(u_file)
           IN /\ loaded.kind = "return"
              /\ u_history' = [u_history EXCEPT ![i] = loaded.value]
        /\ u_pc' = [u_pc EXCEPT ![i] = "ready"]
        /\ UNCHANGED u_file
        /\ UNCHANGED notRuns

\* add_paper in process i up to the open of _save_history, which truncates
\* the file
RunAddPaper ==
    \E i \in Instances, args \in AddArgs, day \in Days :
        /\ u_pc[i] = "ready"
        /\ IF u_history[i].kind = "ledger"
           THEN /\ u_history' =
                     [u_history EXCEPT ![i] =
                         Ledger(StorePaper(u_history[i].papers, RunPaperId(i),
                                           PaperRecord(args, day)),
                                IsoFormat(day))]
                /\ u_pc' = [u_pc EXCEPT ![i] = "dump"]
                /\ u_file' = NotJson
           ELSE /\ u_pc' = [u_pc EXCEPT ![i] = "raised"]
                /\ UNCHANGED <<u_history, u_file>>
        /\ UNCHANGED notRuns

\* add_paper in process i: open(..., "w") raises, the error is logged
RunOpenFails ==
    \E i \in Instances, args \in AddArgs, day \in Days :
        /\ u_pc[i] = "ready"
        /\ u_history[i].kind = "ledger"
        /\ SaveCaught(OSError)
        /\ u_history' =
             [u_history EXCEPT ![i] =
                 Ledger(StorePaper(u_history[i].papers, RunPaperId(i),
                                   PaperRecord(args, day)),
                        IsoFormat(day))]
        /\ u_pc' = [u_pc EXCEPT ![i] = "failed"]
        /\ UNCHANGED u_file
        /\ UNCHANGED notRuns

\* json.dump and the close of the file in process i; add_paper returns.
\* While the other process has the file open for writing too, what the file
\* holds in the end is this document or a mix of the two.
RunDump ==
    \E i \in Instances :
        /\ u_pc[i] = "dump"
        /\ u_file' \in {JsonDump(u_history[i])}
                         \cup (IF u_pc[Other(i)] = "dump" THEN {NotJson} ELSE {})
        /\ u_pc' = [u_pc EXCEPT ![i] = "done"]
        /\ UNCHANGED u_history
        /\ UNCHANGED notRuns

RunsNext == RunConstruct \/ RunAddPaper \/ RunOpenFails \/ RunDump

RunsIdle ==
    /\ u_file = FileAbsent
    /\ u_history = [i \in Instances |-> Gone]
    /\ u_pc = [i \in Instances |-> "none"]

(***************************************************************************)
(* Specifications.                                                         *)
(***************************************************************************)
\* The components that take no part in the specifications written before
\* they were added.
OthersIdle == ConfigIdle /\ ReportIdle /\ RunsIdle

InitClient ==
    /\ ClientInit /\ ParseIdle /\ FilterIdle /\ SummaryIdle /\ HistoryIdle
    /\ OthersIdle
SpecClient == InitClient /\ [][ClientNext]_vars

InitParse ==
    /\ ClientIdle /\ ParseInit /\ FilterIdle /\ SummaryIdle /\ HistoryIdle
    /\ OthersIdle
ParseNext == ParseCall
SpecParse == InitParse /\ [][ParseNext]_vars

InitFilter ==
    /\ ClientIdle /\ ParseIdle /\ FilterInit /\ SummaryIdle /\ HistoryIdle
    /\ OthersIdle
SpecFilter == InitFilter /\ [][FilterNext]_vars

InitSummary ==
    /\ ClientIdle /\ ParseIdle /\ FilterIdle /\ SummaryInit /\ HistoryIdle
    /\ OthersIdle
SpecSummary == InitSummary /\ [][SummaryNext]_vars

InitHistory ==
    /\ ClientIdle /\ ParseIdle /\ FilterIdle /\ SummaryIdle /\ HistoryInit
    /\ OthersIdle
SpecHistory == InitHistory /\ [][HistoryNext]_vars

InitConfig ==
    /\ ClientIdle /\ ParseIdle /\ FilterIdle /\ SummaryIdle /\ HistoryIdle
    /\ ConfigInit /\ ReportIdle /\ RunsIdle
SpecConfig == InitConfig /\ [][ConfigNext]_vars

InitReport ==
    /\ ClientIdle /\ ParseIdle /\ FilterIdle /\ SummaryIdle /\ HistoryIdle
    /\ ConfigIdle /\ ReportInit /\ RunsIdle
SpecReport == InitReport /\ [][ReportNext]_vars

InitRuns ==
    /\ ClientIdle /\ ParseIdle /\ FilterIdle /\ SummaryIdle /\ HistoryIdle
    /\ ConfigIdle /\ ReportIdle /\ RunsInit
SpecRuns == InitRuns /\ [][RunsNext]_vars

(***************************************************************************)
(* Properties of the resilient client.                                     *)
(***************************************************************************)
N == Len(clients)
R == max_retries
Finished == c_pc \in {"returned", "raised"}
AllFailed == \A k \in 1..Len(log) : ~log[k].ok
LastEntry == log[Len(log)]

\* C1: with N >= 1 providers and max_retries = R >= 1, a call in which every
\* attempt fails makes exactly N*R attempts, then raises to the caller, and
\* the exception raised is the one thrown by the R-th attempt on the N-th
\* provider.
C1_AllFailRaisesLast ==
    (HasAttempts /\ Finished /\ AllFailed) =>
        /\ c_pc = "raised"
        /\ Len(log) = N * R
        /\ LastEntry.provider = clients[N]
        /\ LastEntry.attempt = R
        /\ c_out = LastEntry.out
        /\ c_out = thrown
        /\ c_out = Exc(calls, clients[N], R)

C1_Witness ==
    /\ c_pc = "raised"
    /\ N >= 2
    /\ R >= 2
    /\ Len(log) = N * R

\* C2: a call whose first success is the k-th attempt on the j-th provider
\* makes exactly (j-1)*R + k attempts, returns the text of that attempt, and
\* makes no attempt after it.
C2_SuccessShortCircuits ==
    (c_pc = "returned") =>
        /\ Len(log) = (c_i - 1) * R + attempt
        /\ LastEntry.ok
        /\ LastEntry.provider = clients[c_i]
        /\ LastEntry.attempt = attempt
        /\ \A k \in 1..(Len(log) - 1) : ~log[k].ok
        /\ c_out.kind = "text"
        /\ c_out = LastEntry.out

C2_Witness ==
    /\ c_pc = "returned"
    /\ c_i = 2
    /\ attempt = 2
    /\ R = 3

\* C3: providers are attempted strictly in list order: the m-th attempt of a
\* call goes to provider ((m-1) div R) + 1 of the list with attempt number
\* ((m-1) mod R) + 1, and every attempt but the last one made has failed, so
\* a provider is left only after R consecutive failures and never revisited.
C3_ProviderOrder ==
    /\ Len(log) > 0 => R >= 1
    /\ Len(log) <= N * R
    /\ \A m \in 1..Len(log) :
        /\ m <= N * R
        /\ log[m].provider = clients[((m - 1) \div R) + 1]
        /\ log[m].attempt = ((m - 1) % R) + 1
        /\ (m < Len(log)) => ~log[m].ok

C3_Witness ==
    /\ Len(clients) = 2
    /\ R >= 2
    /\ Len(log) > R
    /\ LastEntry.provider = clients[2]

\* The failed attempts of the call that another attempt on the same provider
\* follows.
SleepingFailures == SelectSeq(log, LAMBDA en : ~en.ok /\ en.attempt < R)

\* C4: backoff is linear and only between attempts on one provider: the
\* waits of a call are exactly retry_delay * a for each failed attempt a
\* with a < max_retries, in order, and none follows a provider's last
\* attempt; a call that fails everywhere waits exactly N*(R-1) times.
C4_LinearBackoff ==
    /\ Len(sleeps) = Len(SleepingFailures)
    /\ \A s \in 1..Len(sleeps) :
          s <= Len(SleepingFailures) =>
              sleeps[s] = retry_delay * SleepingFailures[s].attempt
    /\ (HasAttempts /\ c_pc = "raised") => Len(sleeps) = N * (R - 1)

C4_Witness ==
    /\ c_pc = "raised"
    /\ Len(clients) = 2
    /\ R = 3
    /\ retry_delay = 2
    /\ sleeps = <<2, 4, 2, 4>>


(***************************************************************************)
(* Properties of the filter stage.                                         *)
(***************************************************************************)
Called == f_pc = "called"
FailedToParse == Reason("Failed to parse LLM response", NoneVal)

\* C5: every FilterResult returned by filter_paper has matched true only if
\* its relevance is "high" or "medium", whatever the parsed output holds.
C5_MatchedOnlyHighMedium ==
    (Called /\ f_out.kind = "return") =>
        (f_out.value.matched => f_out.value.relevance \in {"high", "medium"})

\* C6: filter_paper returns matched = false whenever the parsed relevance is
\* "low" or the relevance key is absent, even when the parsed matched flag
\* is true.
C6_LowIsNonMatch ==
    (Called /\ ReadsFields(f_chat) /\ f_fields.relevance \in {<<>>, <<"low">>}) =>
        /\ f_out.kind = "return"
        /\ f_out.value.matched = FALSE
        /\ f_out.value.relevance = "low"

C6_Witness ==
    /\ Called
    /\ ReadsFields(f_chat)
    /\ f_fields.matched = <<TRUE>>
    /\ f_fields.relevance = <<"low">>
    /\ f_out.value.matched = FALSE

ParsesToNonObject(chat) ==
    /\ chat.kind = "return"
    /\ chat.value # NoneVal
    /\ ParseResponse(chat.value) = Return(NonDict)

\* C7: filter_paper never lets an exception escape: when the LLM call fails,
\* or anything else goes wrong while the response is handled (None instead
\* of a text, a response that parses to a non-object), it returns a
\* FilterResult with matched = false whose reason carries the error.
C7_NoExceptionEscapes ==
    /\ f_pc # "aborted"
    /\ Called =>
        /\ f_out.kind = "return"
        /\ f_out.value.paper = papers[f_idx]
        /\ (f_chat.kind = "raise") =>
              /\ f_out.value.matched = FALSE
              /\ f_out.value.reason = Reason("Error: ", f_chat.value)
        /\ (f_chat = Return(NoneVal)) =>
              /\ f_out.value.matched = FALSE
              /\ f_out.value.reason = Reason("Error: ", TypeError)
        /\ ParsesToNonObject(f_chat) =>
              /\ f_out.value.matched = FALSE
              /\ f_out.value.reason = Reason("Error: ", AttributeError)

C7_Witness ==
    /\ Called
    /\ f_chat.kind = "raise"
    /\ f_chat.value = Exc(f_idx, MaxProviders, MaxRetries)
    /\ f_out.kind = "return"
    /\ f_out.value.reason.error = f_chat.value

YieldsObject(r) == Parsed(r) /\ r.value # NoneVal /\ r.value.kind = "dict"

NoObjectByAnyStrategy(s) ==
    /\ ~YieldsObject(Strategy1(s))
    /\ ~YieldsObject(Strategy2(s))
    /\ ~YieldsObject(Strategy3(s))

\* C8: whenever the response text yields no JSON object by any of the
\* parsing strategies, filter_paper returns matched = false with the reason
\* "Failed to parse LLM response".
C8_NoObjectIsFailedToParse ==
    (Called /\ f_chat.kind = "return" /\ f_chat.value # NoneVal
        /\ NoObjectByAnyStrategy(f_chat.value.text)) =>
        /\ f_out.kind = "return"
        /\ f_out.value.matched = FALSE
        /\ f_out.value.reason = FailedToParse

MatchedPapers == SelectSeq(classified, LAMBDA c : c.matched)

\* The calls made so far are a prefix of the input, one call per paper, and
\* the results kept are those of the matched papers, in order.
BatchInOrder ==
    /\ f_pc # "aborted"
    /\ Len(classified) <= Len(papers)
    /\ \A k \in 1..Len(classified) :
          k <= Len(papers) => classified[k].paper = papers[k]
    /\ Len(classified) = (IF Called THEN f_idx ELSE f_idx - 1)
    /\ (f_pc = "done") => Len(classified) = Len(papers)
    /\ (f_pc \in {"loop", "done"}) =>
          /\ Len(results) = Len(MatchedPapers)
          /\ \A k \in 1..Len(results) :
                /\ results[k].matched = TRUE
                /\ k <= Len(MatchedPapers) =>
                      results[k].paper = MatchedPapers[k].paper

\* What the loop does with the result of a filter_paper call: a matched
\* result is appended as returned, any other result leaves the list alone.
KeepsMatchedResult ==
    (Called /\ f_out.kind = "return") =>
        results' = IF f_out.value.matched = TRUE
                   THEN Append(results, f_out.value)
                   ELSE results

\* C9: filter_papers classifies each input paper exactly once, in input
\* order, and returns exactly the results with matched = true, in input
\* order; a call or parse failure on one paper does not stop the papers
\* after it from being classified.
C9_BatchInOrder == [](BatchInOrder) /\ [][KeepsMatchedResult]_vars

C9_Witness ==
    /\ f_pc = "done"
    /\ Len(papers) = 2
    /\ classified[1].failed
    /\ ~classified[1].matched
    /\ classified[2].matched
    /\ Len(results) = 1
    /\ results[1].paper = papers[2]

(***************************************************************************)
(* Properties of _parse_response.                                          *)
(***************************************************************************)
ParsedText == p_pc = "done" /\ response # NoneVal

AllProse(s, from, to) == \A m \in from..to : s[m] = "x"

\* A JSON object inside a fenced block (tagged json or not), with nothing
\* but prose before and after the block; the object lies at b..e.
FencedObjectInProse(s, b, e) ==
    /\ 2 <= b /\ b < e /\ e < Len(s)
    /\ s[b] = "{"
    /\ IsJsonValue(SubSeq(s, b, e))
    /\ s[e + 1] = "f"
    /\ AllProse(s, e + 2, Len(s))
    /\ \/ s[b - 1] = "f" /\ AllProse(s, 1, b - 2)
       \/ b >= 3 /\ s[b - 1] = "j" /\ s[b - 2] = "f" /\ AllProse(s, 1, b - 3)

StrategyOrder(s) ==
    /\ Parsed(Strategy1(s)) => p_out = Strategy1(s)
    /\ (~Parsed(Strategy1(s)) /\ Parsed(Strategy2(s))) => p_out = Strategy2(s)
    /\ (~Parsed(Strategy1(s)) /\ ~Parsed(Strategy2(s)) /\ Parsed(Strategy3(s))) =>
          p_out = Strategy3(s)
    /\ (~Parsed(Strategy1(s)) /\ ~Parsed(Strategy2(s)) /\ ~Parsed(Strategy3(s))) =>
          p_out = Return(NoneVal)
    /\ \A b, e \in 1..Len(s) :
          FencedObjectInProse(s, b, e) => p_out = Return(Dict(SubSeq(s, b, e)))

AllStrategiesFail(s) ==
    ~Parsed(Strategy1(s)) /\ ~Parsed(Strategy2(s)) /\ ~Parsed(Strategy3(s))

Keyword == s_keywords[s_idx]
InSummaryCall == s_pc \in {"chat", "returned", "aborted"}
NoSuccess == \A k \in 1..Len(analyses) : ~analyses[k].success
Succeeded == SelectSeq(analyses, LAMBDA a : a.success)
Blocks == llm_calls[1].messages.papers_analysis

\* C11: when the analyses given to generate_summary hold no successful one
\* (the list is empty or every entry failed), the call returns the fixed
\* no-updates placeholder of that keyword and calls the LLM client not once.
C11_PlaceholderWithoutCall ==
    (InSummaryCall /\ NoSuccess) =>
        /\ s_pc = "returned"
        /\ s_out = Return(NoUpdatesText(Keyword))
        /\ llm_calls = <<>>
        /\ s_chat = NotCalled

C11_Witness ==
    /\ s_pc = "returned"
    /\ Len(analyses) >= 2
    /\ NoSuccess
    /\ s_out = Return(NoUpdatesText(Keyword))

\* C12: when the LLM call of generate_summary raises, generate_summary does
\* not raise and returns the error placeholder that embeds the keyword and
\* the text of that error; generate_all_summaries goes on and returns an
\* entry for every keyword, in the order of its argument.
C12_CallFailureIsPlaceholder ==
    /\ s_pc # "aborted"
    /\ (InSummaryCall /\ s_chat.kind = "raise") =>
           s_out = Return(SummaryErrorText(Keyword, s_chat.value))
    /\ Len(summaries) = (IF s_pc = "done" THEN Len(s_keywords) ELSE s_idx - 1)
    /\ \A k \in 1..Len(summaries) : summaries[k].keyword = s_keywords[k]

C12_Witness ==
    /\ s_pc = "done"
    /\ Len(s_keywords) >= 2
    /\ summaries[1].summary.kind = "summary_error"
    /\ summaries[2].summary.kind = "text"

\* C13: when n >= 1 of the analyses are successful (failed ones may lie
\* between them), generate_summary makes exactly one LLM call, and the prompt
\* of that call holds exactly n numbered blocks, numbered 1..n without gaps,
\* the k-th block being that of the k-th successful analysis; a block shows
\* the first 3 authors followed by "et al." when the analysis has more than
\* 3 authors, and all the authors without that marker otherwise.
C13_NumberedBlocks ==
    (InSummaryCall /\ ~NoSuccess) =>
        /\ Len(llm_calls) = 1
        /\ Len(Blocks) = Len(Succeeded)
        /\ \A k \in 1..Len(Blocks) :
            /\ Blocks[k].number = k
            /\ Blocks[k].text.paper = Succeeded[k].paper
            /\ IF Len(Succeeded[k].authors) > 3
               THEN /\ Blocks[k].text.authors_str.names =
                           SubSeq(Succeeded[k].authors, 1, 3)
                    /\ Blocks[k].text.authors_str.et_al
               ELSE /\ Blocks[k].text.authors_str.names = Succeeded[k].authors
                    /\ ~Blocks[k].text.authors_str.et_al

C13_Witness ==
    /\ s_pc = "returned"
    /\ s_chat.kind = "return"
    /\ Len(analyses) = 3
    /\ ~analyses[1].success
    /\ analyses[2].success /\ Len(analyses[2].authors) > 3
    /\ analyses[3].success /\ Len(analyses[3].authors) = 3
    /\ Len(Blocks) = 2

(***************************************************************************)
(* Properties of the paper history.                                        *)
(***************************************************************************)
Ready == h_pc = "ready"
\* the ledger a new PaperHistory on the same file would start with
Reloaded == LoadHistory(h_file).value
RoundTrip == \A x \in PaperIdSet : IsNewPaper(Reloaded, x) = (x \notin added)
\* the latest operation returned to its caller
AddReturned == Ready /\ h_op.name = "add" /\ h_out.kind = "return"
CleanupReturned == Ready /\ h_op.name = "cleanup" /\ h_out.kind = "return"
FilePapers == h_file.doc.papers
FileIsLedger == h_file.kind = "json" /\ h_file.doc.kind = "ledger"
\* the file exists and is not a history this program wrote
Malformed(file) ==
    \/ file.kind \in {"unreadable", "not_json"}
    \/ file.kind = "json" /\ file.doc.kind # "ledger"

C15_CrashKeepsReturned ==
    (Ready /\ h_op.name = "init" /\ h_op.restart /\ h_op.wrote # "failed") =>
        \A x \in h_op.expected : ~IsNewPaper(history, x)

\* C16: whenever add_paper has returned, or cleanup_old_papers has returned
\* a count of at least 1, and the write of the file succeeded, the records
\* of the file are the records in memory.
C16_WriteThrough ==
    (/\ h_wrote = "ok"
     /\ \/ AddReturned
        \/ CleanupReturned /\ h_out.value.n >= 1) =>
        (FileIsLedger /\ FilePapers = history.papers)

C16_Witness ==
    /\ CleanupReturned
    /\ h_out.value.n >= 1
    /\ h_wrote = "ok"
    /\ FileIsLedger
    /\ DOMAIN FilePapers # {}

\* the add_paper steps that find their paper_id in the ledger
UpsertStep ==
    /\ h_pc = "ready"
    /\ h_op'.name = "add"
    /\ today' = today
    /\ history.kind = "ledger"
    /\ h_op'.paper_id \in DOMAIN history.papers
UpsertEffect ==
    LET paper_id == h_op'.paper_id
    IN /\ h_out' = Return(NoneVal)
       /\ DOMAIN history'.papers = DOMAIN history.papers
       /\ history'.papers[paper_id] = PaperRecord(h_op'.args, today)
       /\ \A x \in DOMAIN history.papers \ {paper_id} :
              history'.papers[x] = history.papers[x]

\* C17: add_paper for an id already in the ledger does not raise, leaves the
\* number of records as it is, replaces the record of that id by one built
\* from the new title, source, keywords and pdf_path with the processed_date
\* and processed_time of the call, and leaves every other record unchanged.
C17_Upsert ==
    /\ []((h_op.name = "add" /\ history.kind = "ledger") =>
              h_out = Return(NoneVal))
    /\ [][UpsertStep => UpsertEffect]_vars

C17_Witness ==
    /\ h_pc = "open"
    /\ h_op.name = "add"
    /\ h_op.paper_id = "a"
    /\ added = {"a", "b"}
    /\ DOMAIN history.papers = {"a", "b"}
    /\ FileIsLedger
    /\ history.papers["a"] # FilePapers["a"]
    /\ history.papers["a"].title # FilePapers["a"].title
    /\ history.papers["b"] = FilePapers["b"]

\* the cleanup_old_papers steps on a ledger
CleanupStep ==
    /\ h_pc = "ready"
    /\ h_op'.name = "cleanup"
    /\ today' = today
    /\ history.kind = "ledger"
\* the day a record was processed on is strictly earlier than today - days
Older(rec, days) ==
    \E d \in Days : rec.processed_date = Strftime(d) /\ d < today - days
CleanupEffect ==
    LET old == {x \in DOMAIN history.papers :
                    Older(history.papers[x], h_op'.days)}
    IN /\ DOMAIN history'.papers = DOMAIN history.papers \ old
       /\ \A x \in DOMAIN history'.papers :
              history'.papers[x] = history.papers[x]
       /\ h_out' = Return(IntVal(Cardinality(old)))

\* C18: cleanup_old_papers(days) removes exactly the records whose
\* processed_date is strictly earlier than today - days and keeps every
\* other record, so a record one day older than days is removed and one that
\* is days or fewer days old is kept; it returns the number of records
\* removed.
C18_CleanupStrictlyOlder == [][CleanupStep => CleanupEffect]_vars

C18_Witness ==
    /\ h_op.name = "cleanup"
    /\ h_op.days = 1
    /\ h_op.day = 2
    /\ today = 2
    /\ h_out = Return(IntVal(1))
    /\ DOMAIN history.papers = {"b"}
    /\ history.papers["b"].processed_date = Strftime(1)
    /\ "a" \notin added

\* C19: when the history file exists but cannot be read, is not JSON, or is
\* JSON other than the object with a "papers" object, construction does not
\* raise and the ledger starts empty: is_new_paper is true for every id and
\* get_stats reports zero papers.
C19_MalformedStartsEmpty ==
    (h_op.name = "init" /\ Malformed(h_op.loaded)) =>
        /\ Ready
        /\ \A x \in PaperIdSet : IsNewPaper(history, x)
        /\ GetStats(history).kind = "return"
        /\ GetStats(history).value.total_papers = 0

\* C20: when the write of the file fails during add_paper, add_paper does
\* not raise and the ledger in memory holds the new record (is_new_paper is
\* false for the id and get_paper returns the record); the next write that
\* succeeds puts every record held in memory into the file, those whose own
\* write failed included.
C20_WriteFailureKeepsMemory ==
    /\ (Ready /\ h_op.name = "add" /\ history.kind = "ledger"
              /\ h_wrote = "failed") =>
           /\ h_out = Return(NoneVal)
           /\ ~IsNewPaper(history, h_op.paper_id)
           /\ GetPaper(history, h_op.paper_id) =
                  Return(PaperRecord(h_op.args, h_op.day))
           /\ h_op.paper_id \in unsaved
    /\ (Ready /\ h_op.name \in {"add", "cleanup"} /\ history.kind = "ledger"
              /\ h_wrote = "ok") =>
           /\ FileIsLedger
           /\ unsaved = {}
           /\ \A x \in DOMAIN history.papers :
                  x \in DOMAIN FilePapers /\ FilePapers[x] = history.papers[x]
           /\ h_op.flushed \subseteq DOMAIN FilePapers

C20_Witness ==
    /\ AddReturned
    /\ h_wrote = "ok"
    /\ h_op.paper_id = "b"
    /\ h_op.flushed = {"a", "b"}
    /\ DOMAIN FilePapers = {"a", "b"}

\* a step of one PaperHistory (no kill, no construction), and the steps
\* that call cleanup_old_papers
SameInstance == h_pc \in {"ready", "open", "dump"} /\ h_pc' # "dead"
CleanupCall == h_pc = "ready" /\ h_op'.name = "cleanup" /\ today' = today

\* C21: over the calls of is_new_paper, add_paper, get_paper,
\* get_papers_by_date, get_papers_by_source and get_stats on a PaperHistory
\* the recorded ids never lose an element: an id for which is_new_paper is
\* false stays so until a cleanup_old_papers call removes it.
C21_Monotonic ==
    [][(SameInstance /\ ~CleanupCall) =>
           \A x \in PaperIdSet :
               ~IsNewPaper(history, x) => ~IsNewPaper(history', x)]_vars

C21_Witness ==
    /\ Ready
    /\ h_op.name = "is_new_paper"
    /\ h_out = Return(BoolVal(FALSE))
    /\ history.kind = "ledger"
    /\ DOMAIN history.papers = {"a", "b"}
    /\ history.papers["a"].title = "t2"

\* the cleanup_old_papers steps on a ledger holding no record older than
\* the cutoff
NoopCleanupStep ==
    /\ CleanupCall
    /\ history.kind = "ledger"
    /\ \A x \in DOMAIN history.papers : ~Older(history.papers[x], h_op'.days)
NoopCleanupEffect ==
    /\ h_out' = Return(IntVal(0))
    /\ h_pc' = "ready"
    /\ history' = history
    /\ h_file' = h_file
    /\ h_op'.saves = 0

\* C25: cleanup_old_papers that finds no record older than the cutoff
\* returns 0, does not write the history file and leaves the records in
\* memory and last_updated as they were; a cleanup_old_papers that removed
\* at least one record has opened the file for writing exactly once when it
\* returns, however many records it removed.
C25_CleanupNoop ==
    /\ []((CleanupReturned /\ history.kind = "ledger") =>
              h_op.saves = (IF h_out.value.n >= 1 THEN 1 ELSE 0))
    /\ [][NoopCleanupStep => NoopCleanupEffect]_vars

C25_Witness ==
    /\ CleanupReturned
    /\ h_out = Return(IntVal(0))
    /\ h_op.saves = 0
    /\ history.kind = "ledger"
    /\ DOMAIN history.papers = {"a", "b"}
    /\ FileIsLedger
    /\ h_file.doc = history
    /\ h_op.day > 0

\* C29: whatever the history file held when the PaperHistory was
\* constructed, an add_paper(id, ...) call that has completed did not raise
\* and is_new_paper(id) is false after it.
C29_AddAfterAnyFile ==
    (Ready /\ h_op.name = "add") =>
        /\ h_out = Return(NoneVal)
        /\ ~IsNewPaper(history, h_op.paper_id)

(***************************************************************************)
(* Further properties of the resilient client and of the parser.           *)
(***************************************************************************)
\* C26: every failure that _call_with_fallback surfaces to its caller is the
\* exception thrown by an attempt made during that same call, for every
\* configuration, those with no provider or with max_retries < 1 included.
C26_SurfacedErrorWasThrown ==
    (c_pc = "raised") =>
        \E k \in 1..Len(log) : ~log[k].ok /\ c_out = log[k].out

\* a step that starts a call
CallStep == calls' = calls + 1
StartsAfresh ==
    /\ log' = <<>>
    /\ sleeps' = <<>>
    /\ last_error' = NoneVal
    /\ HasAttempts => (c_pc' = "attempt" /\ c_i' = 1 /\ attempt' = 1)

\* C27: every chat / chat_with_pdf call starts at the first configured
\* provider with attempt 1, whatever the calls before it did: the first
\* attempt of every call goes to the first provider, and no step changes the
\* provider list, its order or the retry settings.
C27_CallsIndependent ==
    /\ [](Len(log) >= 1 =>
              (log[1].provider = clients[1] /\ log[1].attempt = 1))
    /\ [][CallStep => StartsAfresh]_vars
    /\ [][clients' = clients /\ max_retries' = max_retries
              /\ retry_delay' = retry_delay]_vars

C27_Witness ==
    /\ calls = 2
    /\ Len(clients) = 2
    /\ prev.out.kind = "Exception"
    /\ prev.out.provider = clients[2]
    /\ prev.c_i = 2
    /\ Len(log) >= 1
    /\ log[1].provider = clients[1]
    /\ c_pc = "returned"

\* C30: whenever _parse_response returns a value other than None, for
\* whatever response text, that value is a JSON object.
C30_NonNoneIsObject ==
    (ParsedText /\ p_out.kind = "return" /\ p_out.value # NoneVal) =>
        p_out.value.kind = "dict"

(***************************************************************************)
(* Properties of the role resolution and of the JSON report.               *)
(***************************************************************************)
Saved == r_pc = "saved"

\* the number of successful analyses among the first i of a list
Rank(list, i) == Cardinality({j \in 1..i : list[j].success})

\* C22: in the JSON written by save_json, papers_by_keyword has an entry
\* for every topic of the report, holding exactly the successful analyses
\* of the topic in the order of the topic's list, numbered 1, 2, ..., m;
\* failed analyses get no entry and use up no number.
C22_SuccessfulNumbered ==
    Saved =>
        /\ DOMAIN r_json.papers_by_keyword = DOMAIN report
        /\ \A kw \in DOMAIN report :
            LET list == report[kw]
                out == r_json.papers_by_keyword[kw]
            IN /\ Len(out) = Rank(list, Len(list))
               /\ \A k \in 1..Len(out) : out[k].paper_number = k
               /\ \A i \in 1..Len(list) :
                    list[i].success => out[Rank(list, i)].id = list[i].paper

C22_Witness ==
    /\ Saved
    /\ \E kw \in DOMAIN report :
        /\ Len(report[kw]) = 3
        /\ ~report[kw][1].success
        /\ report[kw][2].success
        /\ report[kw][3].success
        /\ r_json.papers_by_keyword[kw] =
             <<[id |-> 2, paper_number |-> 1], [id |-> 3, paper_number |-> 2]>>

\* the latest operation was get_llm_config(config, t)
Resolved(t) == g_op = [name |-> "get_llm_config", llm_type |-> t]

\* the summary role is configured as {use: light | heavy, ...}
SummaryUses(cfg) ==
    /\ cfg.summary.kind = "dict"
    /\ cfg.summary.use \in {<<"light">>, <<"heavy">>}

\* the provider list of a role as configured: the list, or the one object
RoleEntries(cfg, t) ==
    IF cfg[t].kind = "absent" THEN <<EmptyEntry>> ELSE cfg[t].items

\* the value one of the two numeric fields takes: the summary
\* configuration's when given, else the referenced entry's, else the default
Taken(given, own, default) ==
    IF given # <<>> THEN given ELSE IF own # <<>> THEN own ELSE <<default>>

\* the returned list holds none of the objects of the configuration
AllCopies == \A k \in 1..Len(g_out.value.items) : g_out.value.items[k].ref = NoRef

\* C23 as stated: with {use: light | heavy} the summary list has the length
\* and order of the referenced role's list, each entry equal to the
\* referenced entry except that temperature and max_tokens are the summary
\* configuration's values when given; the entries are copies, the
\* configuration is never changed, and get_llm_config for the referenced
\* role returns the original entries.
C23_Original ==
    /\ []((Resolved("summary") /\ SummaryUses(llm0)) =>
            LET sc == llm0.summary
                ref == RoleEntries(llm0, sc.use[1])
            IN /\ g_out.kind = "return"
               /\ Len(g_out.value.items) = Len(ref)
               /\ AllCopies
               /\ \A k \in 1..Len(ref) :
                    LET e == g_out.value.items[k].val
                    IN /\ e.model = ref[k].model
                       /\ e.temperature =
                            (IF sc.temperature # <<>> THEN sc.temperature
                                                      ELSE ref[k].temperature)
                       /\ e.max_tokens =
                            (IF sc.max_tokens # <<>> THEN sc.max_tokens
                                                     ELSE ref[k].max_tokens))
    /\ [][llm' = llm]_vars
    /\ [](\A t \in BaseRoles :
            (Resolved(t) /\ llm0[t].kind # "absent") =>
                /\ g_out.kind = "return"
                /\ [k \in 1..Len(g_out.value.items) |-> g_out.value.items[k].val]
                     = llm0[t].items)

\* C23: with {use: light | heavy} the summary list has the length and order
\* of the referenced role's list, each entry equal to the referenced entry
\* except that temperature and max_tokens are the summary configuration's
\* values when given, and the defaults 0.5 and 2000 when neither the summary
\* configuration nor the referenced entry gives them; the entries are
\* copies, the configuration is never changed, and get_llm_config for the
\* referenced role returns the original entries.
C23_ResolveSummary ==
    /\ []((Resolved("summary") /\ SummaryUses(llm0)) =>
            LET sc == llm0.summary
                ref == RoleEntries(llm0, sc.use[1])
            IN /\ g_out.kind = "return"
               /\ Len(g_out.value.items) = Len(ref)
               /\ AllCopies
               /\ \A k \in 1..Len(ref) :
                    LET e == g_out.value.items[k].val
                    IN /\ e.model = ref[k].model
                       /\ e.temperature =
                            Taken(sc.temperature, ref[k].temperature,
                                  [num |-> 1, den |-> 2])
                       /\ e.max_tokens =
                            Taken(sc.max_tokens, ref[k].max_tokens, 2000))
    /\ [][llm' = llm]_vars
    /\ [](\A t \in BaseRoles :
            (Resolved(t) /\ llm0[t].kind # "absent") =>
                /\ g_out.kind = "return"
                /\ [k \in 1..Len(g_out.value.items) |-> g_out.value.items[k].val]
                     = llm0[t].items)

C23_Witness ==
    /\ Resolved("summary")
    /\ llm0.summary = SummaryDict(<<"heavy">>, <<OverrideTemperature>>, <<>>)
    /\ llm0.heavy.kind = "list"
    /\ Len(llm0.heavy.items) = 2
    /\ llm0.heavy.items[1].temperature = <<ConfigTemperature>>
    /\ llm0.heavy.items[1].max_tokens = <<ConfigMaxTokens>>
    /\ llm0.heavy.items[2].model # llm0.heavy.items[1].model
    /\ g_out.kind = "return"
    /\ g_out.value.items[1].val.temperature = <<OverrideTemperature>>
    /\ g_out.value.items[1].val.max_tokens = <<ConfigMaxTokens>>
    /\ llm = llm0

\* C24: for light and heavy, get_llm_config returns a one-element list
\* holding the configured object when the role is one object, and the
\* configured list, same elements in the same order, when it is a list.
C24_RoleAsList ==
    \A t \in BaseRoles :
        (Resolved(t) /\ llm[t].kind # "absent") =>
            /\ g_out.kind = "return"
            /\ llm[t].kind = "dict" => Len(g_out.value.items) = 1
            /\ Len(g_out.value.items) = Len(llm[t].items)
            /\ \A k \in 1..Len(llm[t].items) :
                 g_out.value.items[k] = Item(Ref(t, k), llm[t].items[k])

C24_Witness ==
    /\ Resolved("light")
    /\ llm.light.kind = "list"
    /\ Len(llm.light.items) = 2
    /\ llm.light.items[1] # llm.light.items[2]
    /\ g_out = Return(ListOf(<<Item(Ref("light", 1), llm.light.items[1]),
                               Item(Ref("light", 2), llm.light.items[2])>>))

\* C28: where the summary configuration overrides temperature or
\* max_tokens, the value that the summary role resolves to is the one sent
\* with the request generate_summary makes.
C28_ResolvedIsSent ==
    (g_op.name = "generate_summary" /\ llm0.summary.kind = "dict") =>
        LET cfg == g_out.value.items[g_op.provider].val
        IN /\ llm0.summary.temperature # <<>> =>
                g_sent.temperature = cfg.temperature[1]
           /\ llm0.summary.max_tokens # <<>> =>
                g_sent.max_tokens = cfg.max_tokens[1]

(***************************************************************************)
(* Consistency of the statistics with the ledger.                          *)
(***************************************************************************)
\* the sum of the counts of a counting dict
RECURSIVE SumOver(_, _)
SumOver(counts, keys) ==
    IF keys = {} THEN 0
    ELSE LET k == CHOOSE x \in keys : TRUE
         IN counts[k] + SumOver(counts, keys \ {k})
Total(counts) == SumOver(counts, DOMAIN counts)

\* counts.get(key, 0)
CountOf(counts, key) == IF key \in DOMAIN counts THEN counts[key] ELSE 0

\* the ids the ledger records
Recorded == {x \in PaperIdSet : ~IsNewPaper(history, x)}

\* a history on which add_paper and cleanup_old_papers can return
Usable == history.kind \in {"ledger", "no_papers_key"}

StatsReturned == Ready /\ h_op.name = "get_stats" /\ Usable

\* C33: on a ledger that add_paper and cleanup_old_papers have worked on,
\* get_stats returns total_papers equal to the number of recorded ids and
\* by_source and by_date counts that each sum to total_papers, and a
\* get_papers_by_source(s) or get_papers_by_date(d) call made next returns
\* exactly by_source[s] or by_date[d] records.
C33_StatsConsistent ==
    /\ [](StatsReturned =>
            /\ h_out.kind = "return"
            /\ h_out.value.total_papers = Cardinality(Recorded)
            /\ Total(h_out.value.by_source) = h_out.value.total_papers
            /\ Total(h_out.value.by_date) = h_out.value.total_papers)
    /\ [][(StatsReturned /\ h_op'.name = "get_papers_by_source") =>
            /\ h_out'.kind = "return"
            /\ Cardinality(h_out'.value.items)
                 = CountOf(h_out.value.by_source, h_op'.source)]_vars
    /\ [][(StatsReturned /\ h_op'.name = "get_papers_by_date") =>
            /\ h_out'.kind = "return"
            /\ Cardinality(h_out'.value.items)
                 = CountOf(h_out.value.by_date, h_op'.date)]_vars

C33_Witness ==
    /\ Ready
    /\ h_op = [name |-> "get_papers_by_source", source |-> "arxiv"]
    /\ history.kind = "ledger"
    /\ DOMAIN history.papers = {"a", "b"}
    /\ history.papers["a"].source = "arxiv"
    /\ history.papers["b"].source = "arxiv"
    /\ history.papers["a"].processed_date # history.papers["b"].processed_date
    /\ Cardinality(h_out.value.items) = 2
    /\ GetStats(history).value.total_papers = 2

(***************************************************************************)
(* Numbering across the stages.                                            *)
(***************************************************************************)
AllStagesDone == Saved /\ r_md # NotCalled /\ r_prompts # NotCalled

\* C31: for every topic and every successful analysis of its list, the
\* number of the analysis's block in the summary prompt, its paper_number
\* in the JSON report and its index in the Markdown report are the same.
C31_SameNumbers ==
    AllStagesDone =>
        \A kw \in DOMAIN report :
            LET list == report[kw]
                blocks == r_prompts.blocks[kw]
                json == r_json.papers_by_keyword[kw]
                md == r_md.papers[kw]
            IN \A i \in 1..Len(list) :
                 list[i].success =>
                    \E n \in 1..Len(list) :
                        /\ \E b \in 1..Len(blocks) :
                             /\ blocks[b].text.paper = list[i].paper
                             /\ blocks[b].number = n
                        /\ \E j \in 1..Len(json) :
                             /\ json[j].id = list[i].paper
                             /\ json[j].paper_number = n
                        /\ \E m \in 1..Len(md) :
                             /\ md[m].id = list[i].paper
                             /\ md[m].index = n

C31_Witness ==
    /\ AllStagesDone
    /\ \E kw \in DOMAIN report :
        /\ Len(report[kw]) = 3
        /\ ~report[kw][1].success
        /\ report[kw][2].success
        /\ report[kw][3].success
        /\ r_prompts.blocks[kw][2].number = 2
        /\ r_prompts.blocks[kw][2].text.paper = 3
        /\ r_json.papers_by_keyword[kw][2] = [id |-> 3, paper_number |-> 2]
        /\ r_md.papers[kw][2] = [index |-> 2, id |-> 3]

(***************************************************************************)
(* Two runs on one history file.                                           *)
(***************************************************************************)
\* C32: once both instances' add_paper calls have returned with their
\* writes done, the history file holds both ids.
C32_BothIdsInFile ==
    (\A i \in Instances : u_pc[i] = "done") =>
        /\ u_file.kind = "json"
        /\ u_file.doc.kind = "ledger"
        /\ \A i \in Instances : RunPaperId(i) \in DOMAIN u_file.doc.papers

=============================================================================
